---- MODULE Spec2Model ----
(***************************************************************************)
(* SentinelIQ: the transactional outbox (ingress gateway and poller), the  *)
(* risk engine with its velocity/state store and decision audit log, and   *)
(* the crypto-chained audit service, the velocity counters, the rule       *)
(* registry, shadow-mode labelling, link analysis and webhook delivery.    *)
(*                                                                         *)
(* Each subsystem has its own specification over the same variables:       *)
(*   SpecOutbox, FairIngest : routes/events.py, services/outbox.py         *)
(*   SpecEngine             : services/risk_engine.py, redis_stream.py     *)
(*   SpecAudit              : services/crypto_audit.py                     *)
(*   SpecVelocity           : services/redis_stream.py                     *)
(*   SpecRegistry           : services/rule_manager.py                     *)
(*   SpecShadow             : services/shadow_mode.py, routes/milestone_1_2*)
(*   SpecLinks              : services/link_analysis.py                    *)
(*   SpecWebhook, FairWebhook : services/webhook_service.py                *)
(*   SpecSwap, SpecPair, SpecToken : the registry, record_connection and   *)
(*       POST /auth/token/refresh under concurrent requests                *)
(***************************************************************************)
EXTENDS Integers, Sequences, FiniteSets, TLC

(***************************************************************************)
(* Bounds of the model (not program constants).                            *)
(***************************************************************************)
MaxOutbox == 2          \* rows OutboxWriter.write_event may insert
MaxCrashes == 2         \* poller crashes / aborted poll cycles
MaxEvals == 2           \* calls of evaluate_event
MaxChain == 2           \* rows of the chained audit table
MaxTime == 3            \* clock values
MaxIncrements == 3      \* calls of increment_velocity_counter on the key
MaxRegistryOps == 4     \* reload, rollback and load_rules_from_redis calls
MaxShadowTime == 2      \* clock values of the labelling service
MaxLinkCalls == 2       \* calls of record_connection
MaxRing == 3            \* length of the user list given to flag_ring
MaxWebhookTime == 3     \* clock values of the webhook service
MaxWebhookEvents == 2   \* risk events handed to WebhookService.deliver
MaxRequests == 2        \* requests the endpoint receives
MaxTxnEvents == 22      \* events evaluated within one hour
MaxLogins == 5          \* logins evaluated within one multi-device window
MaxEngineTicks == 2      \* half days that pass between evaluated events
MaxAttempt == 4         \* attempt numbers given to WebhookService.deliver
MaxPairCalls == 4       \* concurrent-session calls of record_connection
MaxRefresh == 3         \* requests to POST /auth/token/refresh

(***************************************************************************)
(* Program constants.                                                      *)
(***************************************************************************)
MAX_RETRIES == 5        \* OutboxPoller.MAX_RETRIES
BATCH_SIZE == 100       \* OutboxPoller.BATCH_SIZE
TRAVEL_MILES == 3000    \* _check_impossible_travel: distance > 3000
RAPID_TXN == 20         \* _check_rapid_transactions: count > 20
NEW_DEVICES == 3        \* _check_multi_device_login: devices > 3
ONE == 1000             \* the score 1.0
DEFAULT_MAX_RETRIES == 3    \* WebhookCreate.max_retries
CONF_ONE == 6000        \* the confidence 1.0

EventIds == {"e1", "e2"}
EventTypeNames == {"authentication.login", "transaction.attempted"}

\* the events submitted to the gateway: two well-formed ones, one without
\* event_id and one without event_type
IngestInputs ==
    { [event_id |-> "e1", event_type |-> "authentication.login"],
      [event_id |-> "e2", event_type |-> "transaction.attempted"],
      [event_id |-> "",   event_type |-> "authentication.login"],
      [event_id |-> "e1", event_type |-> ""] }

\* the events services hand to OutboxWriter.write_event
WriterInputs ==
    { [event_id |-> "w1", event_type |-> "authentication.login"],
      [event_id |-> "w2", event_type |-> "transaction.attempted"] }

VARIABLES
    event_outbox,   \* table event_outbox (models/events.py EventOutbox): set of rows
    accepted,       \* event ids for which ingest_event returned "accepted"
    response,       \* the last response of ingest_event
    outbox,         \* table outbox (models Outbox): sequence of rows, index = row id
    streams,        \* event bus: stream name (event type) -> sequence of message ids
    pc,             \* position of the poller task inside _poll_cycle
    batch,          \* pending_events still to be processed in this poll cycle
    crashes,        \* number of crashes / aborted cycles so far
    engine_now,     \* the time of the event being evaluated, in hours
    seen_at,        \* user -> the time at which the stored location was cached
    rules,          \* RiskEngine.rules: the loaded rule file
    location,       \* redis user:<id>:location    (user -> place, "none" = no key)
    devices,        \* redis user:<id>:devices     (user -> set of fingerprints)
    newdev,         \* redis user:<id>:devices:5min (user -> set of fingerprints)
    counter,        \* redis user:<id>:transactions:hourly (user -> count, 0 = no key)
    audit_log,      \* table crypto_audit_logs (CryptoAuditLog), in sequence order
    last_event,     \* the event of the last evaluate_event call
    last_decision,  \* the RiskScore that call returned
    last_faults,    \* the state-store operations that raised during that call
    evals,          \* number of evaluate_event calls so far
    chain,          \* table crypto_chained_audit_logs, in insertion order
    task,           \* the tasks running log_event: position and locals
    now,            \* the clock datetime.utcnow() reads
    tampered,       \* ids of the rows whose stored payload was altered
    verify_report,  \* the last report of verify_chain_integrity
    vkey,           \* one redis velocity key: present or not, its value, has a TTL
    vclient,        \* the callers of increment_velocity_counter: position
    vreturned,      \* the values the completed calls returned, in order
    vstarted,       \* number of calls started
    vexpired,       \* whether the key reached its TTL since the first call
    rules_file,     \* content of the rule file at rules_path
    current_rules,  \* RuleManager.current_rules ("none" = None)
    current_version,\* RuleManager.current_version
    rule_history,   \* RuleManager.rule_history: version -> [rules, hash]
    redis_rules,    \* redis rules:version:<v> -> rules
    redis_current,  \* redis rules:current_version (-1 = no key)
    oplog,          \* the last two registry calls: arguments, state before, result
    registry_ops,   \* number of registry calls so far
    installed,      \* every <<version, content>> that was ever made current
    shadow_results, \* table shadow_mode_results: id -> row
    shadow_now,     \* datetime.utcnow() of the labelling service
    last_label,     \* the last POST /shadow-mode/label: request, row before, response
    connections,    \* table user_connections: sequence of rows
    link_calls,     \* the record_connection calls so far, in order
    last_flag,      \* the last flag_ring call: org and user list
    webhook,        \* one row of table webhooks
    deliveries,     \* table webhook_deliveries: sequence of rows
    endpoint,       \* the responses the endpoint gave so far, in order
    wh_now,         \* datetime.utcnow() of the webhook service
    wh_events,      \* number of risk events handed to deliver so far
    retry_logged,   \* rows for which process_pending_retries logged a retry
    writer,         \* the request thread inside reload_rules / rollback_rules
    reader,         \* the request thread of GET /rules/current: position and locals
    edges,          \* table user_connections with its primary keys: sequence of rows
    session,        \* database sessions inside record_connection: position, locals
    pair_done,      \* connection type -> completed record_connection calls
    pair_started,   \* number of record_connection calls started in the sessions
    refresh_tokens, \* table refresh_tokens: sequence of rows, index = the token
    refresh_req,    \* the requests inside refresh_token: position and token
    refresh_log     \* the answered refresh requests: token presented and status

outboxVars == <<event_outbox, accepted, response, outbox, streams, pc, batch, crashes>>
engineVars == <<rules, location, devices, newdev, counter, audit_log,
                last_event, last_decision, last_faults, evals,
                engine_now, seen_at>>
auditVars == <<chain, task, now, tampered, verify_report>>
velocityVars == <<vkey, vclient, vreturned, vstarted, vexpired>>
registryVars == <<rules_file, current_rules, current_version, rule_history,
                  redis_rules, redis_current, oplog, registry_ops,
                  installed>>
shadowVars == <<shadow_results, shadow_now, last_label>>
linkVars == <<connections, link_calls, last_flag>>
webhookVars == <<webhook, deliveries, endpoint, wh_now, wh_events, retry_logged>>
swapVars == <<writer, reader>>
pairVars == <<edges, session, pair_done, pair_started>>
tokenVars == <<refresh_tokens, refresh_req, refresh_log>>
laterServices == <<swapVars, pairVars, tokenVars>>
vars == <<outboxVars, engineVars, auditVars, velocityVars, registryVars,
          shadowVars, linkVars, webhookVars, laterServices>>

\* what the actions of one subsystem leave alone
otherServices == <<shadowVars, linkVars, webhookVars, laterServices>>
notOutbox == <<engineVars, auditVars, velocityVars, registryVars, otherServices>>
notEngine == <<outboxVars, auditVars, velocityVars, registryVars, otherServices>>
notAudit == <<outboxVars, engineVars, velocityVars, registryVars, otherServices>>
notVelocity == <<outboxVars, engineVars, auditVars, registryVars, otherServices>>
notRegistry == <<outboxVars, engineVars, auditVars, velocityVars, otherServices>>
coreServices == <<outboxVars, engineVars, auditVars, velocityVars, registryVars>>
notShadow == <<coreServices, linkVars, webhookVars, laterServices>>
notLinks == <<coreServices, shadowVars, webhookVars, laterServices>>
notWebhook == <<coreServices, shadowVars, linkVars, laterServices>>
notSwap == <<outboxVars, engineVars, auditVars, velocityVars,
             shadowVars, linkVars, webhookVars, pairVars, tokenVars>>
notPair == <<coreServices, shadowVars, linkVars, webhookVars, swapVars,
             tokenVars>>
notToken == <<coreServices, shadowVars, linkVars, webhookVars, swapVars,
              pairVars>>

(***************************************************************************)
(* Helpers.                                                                *)
(***************************************************************************)
Range(s) == {s[i] : i \in DOMAIN s}

\* all orderings of a finite set, as sequences without repetition
Orderings(S) ==
    {f \in [1..Cardinality(S) -> S] : \A i, j \in DOMAIN f : i # j => f[i] # f[j]}

Min(a, b) == IF a <= b THEN a ELSE b

(***************************************************************************)
(* Ingress gateway: POST /events/ingest.                                   *)
(***************************************************************************)
\* ingest_event: the validation errors are raised inside the try block and are
\* caught by "except Exception", which answers 500; a primary-key conflict or a
\* failing commit ends the same way.  Otherwise one row is inserted into the
\* table event_outbox and the accepted response is returned.
ingest_event(eid, etype, commit_ok) ==
    /\ IF eid = "" \/ etype = ""
          \/ (\E r \in event_outbox : r.id = eid) \/ ~commit_ok
       THEN /\ response' = [event_id |-> eid, status |-> "error_500"]
            /\ UNCHANGED <<event_outbox, accepted>>
       ELSE /\ event_outbox' = event_outbox \cup
                   {[id |-> eid, event_type |-> etype, is_processed |-> FALSE,
                     retry_count |-> 0, last_error |-> "none"]}
            /\ accepted' = accepted \cup {eid}
            /\ response' = [event_id |-> eid, status |-> "accepted"]
    /\ UNCHANGED <<outbox, streams, pc, batch, crashes,
                   notOutbox>>

(***************************************************************************)
(* OutboxWriter and OutboxPoller (services/outbox.py), table outbox.       *)
(***************************************************************************)
\* OutboxWriter.write_event, committed by the caller's transaction
write_event(eid, etype) ==
    /\ Len(outbox) < MaxOutbox
    /\ outbox' = Append(outbox,
          [event_id |-> eid, event_type |-> etype, status |-> "pending",
           retry_count |-> 0, error_message |-> "none", published_at |-> FALSE])
    /\ UNCHANGED <<event_outbox, accepted, response, streams, pc, batch, crashes,
                   notOutbox>>

\* a fetch that forgets the status filter
PendingFilter_NoStatus(row) == row.status \in {"pending", "published", "failed"}

\* the WHERE clause of _get_pending_events
PendingFilter(row) == row.status = "pending"

\* _get_pending_events: the rows with status pending, at most `limit` of them;
\* the query has no ORDER BY, so any selection in any order may come back
get_pending_events(limit) ==
    LET pend == {i \in DOMAIN outbox : PendingFilter(outbox[i])}
        n == Min(limit, Cardinality(pend))
    IN UNION {Orderings(S) : S \in {T \in SUBSET pend : Cardinality(T) = n}}

\* after a record of the batch is done: next record, or sleep and start over
Advance ==
    /\ batch' = Tail(batch)
    /\ pc' = IF Len(batch) > 1 THEN "publish" ELSE "idle"

\* _poll_cycle [1]: fetch the pending rows (an empty result sleeps and returns,
\* which changes nothing)
poll_cycle_fetch ==
    /\ pc = "idle"
    /\ \E b \in get_pending_events(BATCH_SIZE) :
          /\ Len(b) > 0
          /\ batch' = b
    /\ pc' = "publish"
    /\ UNCHANGED <<event_outbox, accepted, response, outbox, streams, crashes,
                   notOutbox>>

\* the stream a record is published to
StreamOf(row) == row.event_type

\* _publish_event returning True: the message is on the stream events:<type>
publish_event_ok ==
    /\ pc = "publish"
    /\ LET row == outbox[Head(batch)]
       IN streams' = [streams EXCEPT ![StreamOf(row)] = Append(@, row.event_id)]
    /\ pc' = "mark_published"
    /\ UNCHANGED <<event_outbox, accepted, response, outbox, batch, crashes,
                   notOutbox>>

\* _publish_event returning False: publish_to_stream raised
publish_event_fail ==
    /\ pc = "publish"
    /\ pc' = "increment_retry"
    /\ UNCHANGED <<event_outbox, accepted, response, outbox, streams, batch, crashes,
                   notOutbox>>

\* _mark_published (one commit)
mark_published ==
    /\ pc = "mark_published"
    /\ outbox' = [outbox EXCEPT ![Head(batch)].status = "published",
                                ![Head(batch)].published_at = TRUE]
    /\ Advance
    /\ UNCHANGED <<event_outbox, accepted, response, streams, crashes,
                   notOutbox>>

\* the test of _poll_cycle after _increment_retry
RetriesExhausted(count) == count >= MAX_RETRIES

\* _increment_retry (one commit), then the test retry_count >= MAX_RETRIES on the
\* refreshed record
increment_retry ==
    /\ pc = "increment_retry"
    /\ outbox' = [outbox EXCEPT ![Head(batch)].retry_count = @ + 1]
    /\ IF RetriesExhausted(outbox'[Head(batch)].retry_count)
       THEN pc' = "mark_failed" /\ UNCHANGED batch
       ELSE Advance
    /\ UNCHANGED <<event_outbox, accepted, response, streams, crashes,
                   notOutbox>>

\* _mark_failed (a second commit)
mark_failed ==
    /\ pc = "mark_failed"
    /\ outbox' = [outbox EXCEPT ![Head(batch)].status = "failed",
                                ![Head(batch)].error_message = "Max retries exceeded"]
    /\ Advance
    /\ UNCHANGED <<event_outbox, accepted, response, streams, crashes,
                   notOutbox>>

\* The poller process crashes and is restarted, or a statement of the cycle
\* raises and start() catches it: the rest of the cycle is abandoned, what was
\* committed stays.
poller_crash ==
    /\ pc # "idle"
    /\ crashes < MaxCrashes
    /\ crashes' = crashes + 1
    /\ pc' = "idle"
    /\ batch' = <<>>
    /\ UNCHANGED <<event_outbox, accepted, response, outbox, streams,
                   notOutbox>>

PollerStep ==
    \/ poll_cycle_fetch
    \/ publish_event_ok
    \/ publish_event_fail
    \/ mark_published
    \/ increment_retry
    \/ mark_failed

InitOutboxVars ==
    /\ event_outbox = {}
    /\ accepted = {}
    /\ response = [event_id |-> "", status |-> "none"]
    /\ outbox = <<>>
    /\ streams = [t \in EventTypeNames |-> <<>>]
    /\ pc = "idle"
    /\ batch = <<>>
    /\ crashes = 0

(***************************************************************************)
(* Risk engine (services/risk_engine.py) over the state store              *)
(* (services/redis_stream.py).  Scores are in thousandths (1000 = 1.0),    *)
(* confidences in six-thousandths (6000 = 1.0), so that the blends and the *)
(* thirds of _calculate_confidence are exact.                              *)
(***************************************************************************)
Users == {"u1", "u2"}
LOGIN == "authentication.login"
TRANSACTION == "transaction.attempted"

Event(id, user, type, country, place, device) ==
    [event_id |-> id, user_id |-> user, event_type |-> type,
     country_code |-> country, place |-> place, device_fingerprint |-> device]

\* the events evaluated
EngineEvents ==
    { Event("e1", "u1", LOGIN, "US", "NYC", "d1"),
      Event("e2", "u1", LOGIN, "JP", "TOKYO", "d2"),
      Event("e3", "u1", TRANSACTION, "KP", "NYC", "d1"),
      Event("e4", "u2", TRANSACTION, "US", "LA", "d1"),
      Event("e5", "u2", LOGIN, "KP", "LA", "d2") }

NoEvent == Event("", "", "", "", "", "")

\* transaction attempts of two users, none from a sanctioned region
RapidEvents ==
    { Event("r1", "u1", TRANSACTION, "US", "NYC", "d1"),
      Event("r2", "u2", TRANSACTION, "US", "LA", "d1") }

\* logins of two users from one place each, from several devices
DeviceEvents ==
    { Event("l1", "u1", LOGIN, "US", "NYC", "d1"),
      Event("l2", "u1", LOGIN, "US", "NYC", "d2"),
      Event("l3", "u1", LOGIN, "US", "NYC", "d3"),
      Event("l4", "u1", LOGIN, "US", "NYC", "d4"),
      Event("l5", "u1", LOGIN, "US", "NYC", "d5"),
      Event("l6", "u2", LOGIN, "US", "LA", "d1") }

\* logins from three places, none from a sanctioned region
TravelEvents ==
    { Event("t1", "u1", LOGIN, "US", "NYC", "d1"),
      Event("t2", "u1", LOGIN, "US", "LA", "d1"),
      Event("t3", "u1", LOGIN, "JP", "TOKYO", "d1"),
      Event("t4", "u2", LOGIN, "US", "LA", "d2") }

\* the state-store operations evaluate_event performs
StoreOps == {"get_user_location", "cache_user_location", "is_known_device",
             "new_device_set", "cache_device_fingerprint",
             "increment_velocity_counter"}

\* which of them raise during one evaluation: none, one, or all (store down)
FaultPatterns == {{}} \cup {{op} : op \in StoreOps} \cup {StoreOps}

\* the rule file: three hard rules (one disabled), the three velocity checks, one behavioral
\* rule, one combination, the thresholds
RuleFile(gate_score, th) ==
    [ hard_rules |-> <<
          [id |-> "sanctioned_region", enabled |-> TRUE,
           conds |-> {"country_code"}, event_type |-> "",
           country_in |-> {"KP"}, risk_score |-> gate_score],
          [id |-> "blocked_transfer", enabled |-> TRUE,
           conds |-> {"event_type", "country_code"}, event_type |-> TRANSACTION,
           country_in |-> {"KP"}, risk_score |-> 900],
          [id |-> "maintenance_freeze", enabled |-> FALSE,
           conds |-> {}, event_type |-> "",
           country_in |-> {}, risk_score |-> 1000] >>,
      velocity_checks |-> <<
          [id |-> "impossible_travel", enabled |-> TRUE, risk_score |-> 700],
          [id |-> "rapid_transactions", enabled |-> TRUE, risk_score |-> 700],
          [id |-> "multi_device_login", enabled |-> TRUE, risk_score |-> 750] >>,
      behavioral_rules |-> <<
          [id |-> "unusual_location", enabled |-> TRUE,
           conds |-> {"event_type", "country_code"}, event_type |-> LOGIN,
           country_in |-> {"JP"}, risk_score |-> 500] >>,
      rule_combinations |-> <<
          [id |-> "account_takeover",
           triggered_rules |-> {"impossible_travel", "unusual_location"},
           base_score |-> 900] >>,
      thresholds |-> th ]

\* scores a rule file may give the first gate: below the block threshold, the
\* top of the range, and above the range
GateScores == {500, 1000, 1200}

\* the thresholds _determine_action falls back to
DefaultThresholds == [review |-> 300, challenge |-> 600, block |-> 800]

\* thresholds of a rule file that sends more decisions to review
LowReviewThresholds == [review |-> 100, challenge |-> 600, block |-> 800]

DefaultRuleFile == RuleFile(1000, DefaultThresholds)

RuleFiles ==
    {RuleFile(s, DefaultThresholds) : s \in GateScores}
        \cup {RuleFile(1000, LowReviewThresholds)}

MaxOf(seq) == CHOOSE m \in Range(seq) : \A x \in Range(seq) : x <= m

\* _haversine_distance (R = 3959 mi) between the coordinates of the places:
\* NYC (40.7128, -74.0060), LA (34.0522, -118.2437), TOKYO (35.6762, 139.6503)
haversine_distance(a, b) ==
    IF a = b THEN 0
    ELSE IF {a, b} = {"NYC", "LA"} THEN 2446
    ELSE IF {a, b} = {"NYC", "TOKYO"} THEN 6743
    ELSE 5480

\* _match_rule: only the conditions event_type and country_code are looked at
match_rule(ev, rule) ==
    /\ "event_type" \in rule.conds => ev.event_type = rule.event_type
    /\ "country_code" \in rule.conds => ev.country_code \in rule.country_in

\* the triggered ids and scores of the enabled rules of `list` that match
RECURSIVE match_rules_from(_, _, _, _)
match_rules_from(list, i, ev, acc) ==
    IF i > Len(list) THEN acc
    ELSE LET rule == list[i]
             hit == rule.enabled /\ match_rule(ev, rule)
         IN match_rules_from(list, i + 1, ev,
              IF hit THEN [triggered |-> Append(acc.triggered, rule.id),
                           scores |-> Append(acc.scores, rule.risk_score)]
              ELSE acc)

\* _evaluate_hard_rules
evaluate_hard_rules(ev) ==
    match_rules_from(rules.hard_rules, 1, ev, [triggered |-> <<>>, scores |-> <<>>])

\* _evaluate_behavioral_rules
evaluate_behavioral_rules(ev) ==
    match_rules_from(rules.behavioral_rules, 1, ev, [triggered |-> <<>>, scores |-> <<>>])

(***************************************************************************)
(* State-store operations.  st is the store during one evaluation:         *)
(* [location, devices, newdev, counter, failed], failed being the set of   *)
(* operations that raised so far.                                          *)
(***************************************************************************)
Raised(st, op) == [st EXCEPT !.failed = @ \cup {op}]

\* get_user_location: the stored place; an error is logged and None returned
get_user_location(st, user, faults) ==
    IF "get_user_location" \in faults
    THEN [st |-> Raised(st, "get_user_location"), value |-> "none"]
    ELSE [st |-> st, value |-> st.location[user]]

\* cache_user_location: an error is logged and swallowed
cache_user_location(st, user, place, faults) ==
    IF "cache_user_location" \in faults
    THEN Raised(st, "cache_user_location")
    ELSE [st EXCEPT !.location[user] = place]

\* is_known_device: an error is logged and False returned
is_known_device(st, user, fp, faults) ==
    IF "is_known_device" \in faults
    THEN [st |-> Raised(st, "is_known_device"), value |-> FALSE]
    ELSE [st |-> st, value |-> fp \in st.devices[user]]

\* cache_device_fingerprint: an error is logged and swallowed
cache_device_fingerprint(st, user, fp, faults) ==
    IF "cache_device_fingerprint" \in faults
    THEN Raised(st, "cache_device_fingerprint")
    ELSE [st EXCEPT !.devices[user] = @ \cup {fp}]

\* increment_velocity_counter: a missing key is created at 0, then incremented;
\* an error is logged and raised again
increment_velocity_counter(st, user, faults) ==
    IF "increment_velocity_counter" \in faults
    THEN [st |-> Raised(st, "increment_velocity_counter"), value |-> 0, exc |-> TRUE]
    ELSE [st |-> [st EXCEPT !.counter[user] = @ + 1],
          value |-> st.counter[user] + 1, exc |-> FALSE]

(***************************************************************************)
(* Velocity checks: each returns [st, hit, exc].                           *)
(***************************************************************************)
NoHit(st) == [st |-> st, hit |-> FALSE, exc |-> FALSE]

\* _check_impossible_travel
check_impossible_travel(st, ev, faults) ==
    IF ev.event_type # LOGIN THEN NoHit(st)
    ELSE LET last == get_user_location(st, ev.user_id, faults)
         IN IF last.value = "none"
            THEN NoHit(cache_user_location(last.st, ev.user_id, ev.place, faults))
            ELSE IF haversine_distance(last.value, ev.place) > TRAVEL_MILES
            THEN [st |-> cache_user_location(last.st, ev.user_id, ev.place, faults),
                  hit |-> TRUE, exc |-> FALSE]
            ELSE NoHit(last.st)

\* _check_rapid_transactions triggering at the threshold already
check_rapid_transactions_AtThreshold(st, ev, faults) ==
    IF ev.event_type # TRANSACTION THEN NoHit(st)
    ELSE LET inc == increment_velocity_counter(st, ev.user_id, faults)
         IN IF inc.exc THEN [st |-> inc.st, hit |-> FALSE, exc |-> TRUE]
            ELSE [st |-> inc.st, hit |-> inc.value >= RAPID_TXN, exc |-> FALSE]

\* _check_rapid_transactions
check_rapid_transactions(st, ev, faults) ==
    IF ev.event_type # TRANSACTION THEN NoHit(st)
    ELSE LET inc == increment_velocity_counter(st, ev.user_id, faults)
         IN IF inc.exc THEN [st |-> inc.st, hit |-> FALSE, exc |-> TRUE]
            ELSE [st |-> inc.st, hit |-> inc.value > RAPID_TXN, exc |-> FALSE]

\* _check_multi_device_login triggering at the threshold already
check_multi_device_login_AtThreshold(st, ev, faults) ==
    IF ev.event_type # LOGIN THEN NoHit(st)
    ELSE LET known == is_known_device(st, ev.user_id, ev.device_fingerprint, faults)
         IN IF known.value THEN NoHit(known.st)
            ELSE IF "new_device_set" \in faults
            THEN [st |-> Raised(known.st, "new_device_set"), hit |-> FALSE, exc |-> TRUE]
            ELSE LET st1 == [known.st EXCEPT
                               !.newdev[ev.user_id] = @ \cup {ev.device_fingerprint}]
                 IN IF Cardinality(st1.newdev[ev.user_id]) >= NEW_DEVICES
                    THEN [st |-> st1, hit |-> TRUE, exc |-> FALSE]
                    ELSE NoHit(cache_device_fingerprint(
                                 st1, ev.user_id, ev.device_fingerprint, faults))

\* _check_multi_device_login: sadd/expire/scard on the 5-minute set go to the
\* client directly, so an error there propagates
check_multi_device_login(st, ev, faults) ==
    IF ev.event_type # LOGIN THEN NoHit(st)
    ELSE LET known == is_known_device(st, ev.user_id, ev.device_fingerprint, faults)
         IN IF known.value THEN NoHit(known.st)
            ELSE IF "new_device_set" \in faults
            THEN [st |-> Raised(known.st, "new_device_set"), hit |-> FALSE, exc |-> TRUE]
            ELSE LET st1 == [known.st EXCEPT
                               !.newdev[ev.user_id] = @ \cup {ev.device_fingerprint}]
                 IN IF Cardinality(st1.newdev[ev.user_id]) > NEW_DEVICES
                    THEN [st |-> st1, hit |-> TRUE, exc |-> FALSE]
                    ELSE NoHit(cache_device_fingerprint(
                                 st1, ev.user_id, ev.device_fingerprint, faults))

\* one iteration of the loop of _evaluate_velocity_checks
apply_velocity_rule(acc, rule, ev, faults) ==
    IF acc.exc \/ ~rule.enabled THEN acc
    ELSE LET r == IF rule.id = "impossible_travel"
                  THEN check_impossible_travel(acc.st, ev, faults)
                  ELSE IF rule.id = "rapid_transactions"
                  THEN check_rapid_transactions(acc.st, ev, faults)
                  ELSE IF rule.id = "multi_device_login"
                  THEN check_multi_device_login(acc.st, ev, faults)
                  ELSE NoHit(acc.st)
         IN [st |-> r.st, exc |-> r.exc,
             triggered |-> IF r.hit THEN Append(acc.triggered, rule.id)
                           ELSE acc.triggered,
             scores |-> IF r.hit THEN Append(acc.scores, rule.risk_score)
                        ELSE acc.scores]

RECURSIVE velocity_checks_from(_, _, _, _)
velocity_checks_from(i, acc, ev, faults) ==
    IF i > Len(rules.velocity_checks) THEN acc
    ELSE velocity_checks_from(
            i + 1, apply_velocity_rule(acc, rules.velocity_checks[i], ev, faults),
            ev, faults)

\* _evaluate_velocity_checks
evaluate_velocity_checks(st, ev, faults) ==
    velocity_checks_from(
        1, [st |-> st, exc |-> FALSE, triggered |-> <<>>, scores |-> <<>>], ev, faults)

\* _evaluate_rule_combinations adding up the boosts of the matching
\* combinations
RECURSIVE combo_boost_from_Stacking(_, _, _)
combo_boost_from_Stacking(i, triggered, boost) ==
    IF i > Len(rules.rule_combinations) THEN boost
    ELSE LET combo == rules.rule_combinations[i]
             b == combo.base_score - 500
         IN combo_boost_from_Stacking(i + 1, triggered,
              IF combo.triggered_rules \subseteq Range(triggered) /\ b > 0
              THEN boost + b ELSE boost)

\* _evaluate_rule_combinations: the largest base_score - 0.5 of the matching
\* combinations, at least 0
RECURSIVE combo_boost_from(_, _, _)
combo_boost_from(i, triggered, boost) ==
    IF i > Len(rules.rule_combinations) THEN boost
    ELSE LET combo == rules.rule_combinations[i]
             b == combo.base_score - 500
         IN combo_boost_from(i + 1, triggered,
              IF combo.triggered_rules \subseteq Range(triggered) /\ b > boost
              THEN b ELSE boost)

evaluate_rule_combinations(triggered) == combo_boost_from(1, triggered, 0)

\* _determine_action with the thresholds of the first comparison mixed up
determine_action_WrongBand(score) ==
    IF score < rules.thresholds.challenge THEN <<"low", "allow">>
    ELSE IF score < rules.thresholds.block THEN <<"high", "challenge">>
    ELSE <<"critical", "block">>

\* _determine_action
determine_action(score) ==
    IF score < rules.thresholds.review THEN <<"low", "allow">>
    ELSE IF score < rules.thresholds.challenge THEN <<"medium", "review">>
    ELSE IF score < rules.thresholds.block THEN <<"high", "challenge">>
    ELSE <<"critical", "block">>

\* _calculate_confidence: (min(1, n/3) + score) / 2
calculate_confidence(num_rules, score) == Min(3, num_rules) * 1000 + score * 3

\* the field constraints of schemas.RiskScore (ge=0.0, le=1.0): the constructor
\* raises a validation error outside them
ValidRiskScore(score, confidence) ==
    /\ 0 <= score /\ score <= ONE
    /\ 0 <= confidence /\ confidence <= CONF_ONE

RiskScore(ev, score, level, action, confidence, hard, triggered) ==
    [event_id |-> ev.event_id, user_id |-> ev.user_id, risk_score |-> score,
     risk_level |-> level, recommended_action |-> action,
     confidence |-> confidence, hard_rules_triggered |-> hard,
     triggered_rules |-> triggered]

\* the decision of the except branch of evaluate_event
FailOpen(ev) ==
    RiskScore(ev, 200, "low", "allow", 3000, <<>>, <<"evaluation_error">>)

\* thresholds a rule file may carry: every ordered choice of three levels
ThresholdLevels == {300, 600, 800}

ThresholdSets ==
    { th \in [review : ThresholdLevels, challenge : ThresholdLevels,
              block : ThresholdLevels] :
        th.review <= th.challenge /\ th.challenge <= th.block }

\* scores at, just below and just above the levels, and the ends of the range
ScoreInputs ==
    {0, ONE} \cup UNION { {t - 1, t, t + 1} : t \in ThresholdLevels }

\* RiskEngine.__init__ on a rule file with these thresholds: an engine that
\* has made no decision yet
load_rules(th) ==
    /\ rules.thresholds # th
    /\ rules' = RuleFile(1000, th)
    /\ last_decision' = FailOpen(NoEvent)
    /\ UNCHANGED <<location, devices, newdev, counter, audit_log, last_event,
                   last_faults, evals, engine_now, seen_at, notEngine>>

\* _determine_action applied to a score; the pair is kept in a decision
apply_determine_action(score) ==
    /\ last_decision' =
          RiskScore(NoEvent, score, determine_action(score)[1],
                    determine_action(score)[2], CONF_ONE, <<>>, <<>>)
    /\ UNCHANGED <<rules, location, devices, newdev, counter, audit_log,
                   last_event, last_faults, evals, engine_now, seen_at,
                   notEngine>>

\* combinations a rule file may configure; the last one has a base_score
\* below 0.5
ComboPool ==
    { [id |-> "account_takeover",
       triggered_rules |-> {"impossible_travel", "unusual_location"},
       base_score |-> 900],
      [id |-> "card_testing", triggered_rules |-> {"rapid_transactions"},
       base_score |-> 700],
      [id |-> "travel_watch", triggered_rules |-> {"impossible_travel"},
       base_score |-> 600],
      [id |-> "new_region", triggered_rules |-> {"unusual_location"},
       base_score |-> 300] }

\* the default rule file with zero, one or two of these combinations
ComboRuleFiles ==
    { [DefaultRuleFile EXCEPT !.rule_combinations = combos] :
        combos \in {<<>>} \cup { <<c>> : c \in ComboPool }
                          \cup { <<c, d>> : c, d \in ComboPool } }

\* RiskEngine.__init__ on one of these rule files: an engine that has made
\* no decision yet
load_combinations(file) ==
    /\ rules # file
    /\ rules' = file
    /\ last_decision' = FailOpen(NoEvent)
    /\ UNCHANGED <<location, devices, newdev, counter, audit_log, last_event,
                   last_faults, evals, engine_now, seen_at, notEngine>>

\* lists of triggered rule ids handed to _evaluate_rule_combinations
TriggeredInputs ==
    { <<>>, <<"impossible_travel">>, <<"rapid_transactions">>,
      <<"unusual_location">>, <<"impossible_travel", "unusual_location">>,
      <<"rapid_transactions", "unusual_location">>,
      <<"impossible_travel", "rapid_transactions", "unusual_location">> }

\* steps 4 and 5 of evaluate_event applied to the score of the decision so
\* far and a list of triggered rules
apply_rule_combinations(triggered) ==
    /\ last_decision.triggered_rules = <<>>
    /\ \E s3 \in {Min(ONE, last_decision.risk_score
                              + evaluate_rule_combinations(triggered))} :
          last_decision' =
              RiskScore(NoEvent, s3, determine_action(s3)[1],
                        determine_action(s3)[2], CONF_ONE, <<>>, triggered)
    /\ UNCHANGED <<rules, location, devices, newdev, counter, audit_log,
                   last_event, last_faults, evals, engine_now, seen_at,
                   notEngine>>

\* evaluate_event running the velocity checks before it looks at the hard
\* rules
evaluate_ChecksBeforeGate(ev, st, faults) ==
    LET hard == evaluate_hard_rules(ev)
    IN IF Len(hard.triggered) > 0
       THEN LET score == MaxOf(hard.scores)
            IN IF ValidRiskScore(score, CONF_ONE)
               THEN [decision |-> RiskScore(ev, score, "critical", "block", CONF_ONE,
                                            hard.triggered, hard.triggered),
                     st |-> evaluate_velocity_checks(st, ev, faults).st,
                     logged |-> TRUE]
               ELSE [decision |-> FailOpen(ev), st |-> st, logged |-> FALSE]
       ELSE LET vel == evaluate_velocity_checks(st, ev, faults)
            IN IF vel.exc
               THEN [decision |-> FailOpen(ev), st |-> vel.st, logged |-> FALSE]
               ELSE LET s1 == IF Len(vel.triggered) > 0 THEN MaxOf(vel.scores) ELSE 0
                        beh == evaluate_behavioral_rules(ev)
                        s2 == IF Len(beh.triggered) > 0
                              THEN (s1 * 7 + MaxOf(beh.scores) * 3) \div 10
                              ELSE s1
                        trig == vel.triggered \o beh.triggered
                        s3 == Min(ONE, s2 + evaluate_rule_combinations(trig))
                        la == determine_action(s3)
                        conf == calculate_confidence(Len(trig), s3)
                    IN IF ValidRiskScore(s3, conf)
                       THEN [decision |-> RiskScore(ev, s3, la[1], la[2], conf,
                                                    <<>>, trig),
                             st |-> vel.st, logged |-> TRUE]
                       ELSE [decision |-> FailOpen(ev), st |-> vel.st,
                             logged |-> FALSE]

\* evaluate_event up to its return: the decision, the store it leaves, and
\* whether _log_risk_decision was called
evaluate(ev, st, faults) ==
    LET hard == evaluate_hard_rules(ev)
    IN IF Len(hard.triggered) > 0
       THEN LET score == MaxOf(hard.scores)
            IN IF ValidRiskScore(score, CONF_ONE)
               THEN [decision |-> RiskScore(ev, score, "critical", "block", CONF_ONE,
                                            hard.triggered, hard.triggered),
                     st |-> st, logged |-> TRUE]
               ELSE [decision |-> FailOpen(ev), st |-> st, logged |-> FALSE]
       ELSE LET vel == evaluate_velocity_checks(st, ev, faults)
            IN IF vel.exc
               THEN [decision |-> FailOpen(ev), st |-> vel.st, logged |-> FALSE]
               ELSE LET s1 == IF Len(vel.triggered) > 0 THEN MaxOf(vel.scores) ELSE 0
                        beh == evaluate_behavioral_rules(ev)
                        s2 == IF Len(beh.triggered) > 0
                              THEN (s1 * 7 + MaxOf(beh.scores) * 3) \div 10
                              ELSE s1
                        trig == vel.triggered \o beh.triggered
                        s3 == Min(ONE, s2 + evaluate_rule_combinations(trig))
                        la == determine_action(s3)
                        conf == calculate_confidence(Len(trig), s3)
                    IN IF ValidRiskScore(s3, conf)
                       THEN [decision |-> RiskScore(ev, s3, la[1], la[2], conf,
                                                    <<>>, trig),
                             st |-> vel.st, logged |-> TRUE]
                       ELSE [decision |-> FailOpen(ev), st |-> vel.st,
                             logged |-> FALSE]

\* sha256 of previous_hash-or-"" followed by the serialized log_data, taken to be
\* collision-free; no previous entry is the empty sequence
AuditHash(previous_hash, log_data) == <<previous_hash, log_data>>

\* _log_risk_decision: the table after it (db_session taken to be a working
\* session).  The insert fails on a second entry
\* with the primary key audit_<event_id> or on a failing commit; the error is
\* logged and the transaction rolled back.
log_risk_decision(ev, d, commit_ok) ==
    IF ~commit_ok \/ (\E i \in DOMAIN audit_log : audit_log[i].event_id = ev.event_id)
    THEN audit_log
    ELSE LET prev == IF Len(audit_log) = 0 THEN <<>>
                     ELSE audit_log[Len(audit_log)].current_hash
             data == [risk_score |-> d.risk_score, risk_level |-> d.risk_level,
                      triggered_rules |-> d.triggered_rules,
                      confidence |-> d.confidence]
         IN Append(audit_log,
              [event_id |-> ev.event_id, user_id |-> ev.user_id,
               decision |-> d.recommended_action, risk_score |-> d.risk_score,
               risk_level |-> d.risk_level, previous_hash |-> prev,
               current_hash |-> AuditHash(prev, data)])

\* one call of evaluate_event; commit_ok is the outcome of the commit of
\* _log_risk_decision and is only drawn when that is called
evaluate_call(ev, faults, commit_ok) ==
    /\ \E r \in {evaluate(ev, [location |-> location, devices |-> devices,
                                newdev |-> newdev, counter |-> counter,
                                failed |-> {}], faults)} :
          /\ r.logged \/ commit_ok
          /\ location' = r.st.location
          /\ devices' = r.st.devices
          /\ newdev' = r.st.newdev
          /\ counter' = r.st.counter
          /\ seen_at' = [u \in Users |->
                           IF r.st.location[u] # location[u] THEN engine_now
                           ELSE seen_at[u]]
          /\ last_faults' = r.st.failed
          /\ last_decision' = r.decision
          /\ audit_log' = IF r.logged THEN log_risk_decision(ev, r.decision, commit_ok)
                          ELSE audit_log
    /\ last_event' = ev
    /\ evals' = evals + 1
    /\ UNCHANGED <<rules, engine_now, notEngine>>

\* evaluate_event, at most MaxEvals times
evaluate_event(ev, faults, commit_ok) ==
    /\ evals < MaxEvals
    /\ evaluate_call(ev, faults, commit_ok)

\* evaluate_event for the events of one hour, with a working store
evaluate_in_hour(ev, commit_ok) ==
    /\ evals < MaxTxnEvents
    /\ evaluate_call(ev, {}, commit_ok)

\* evaluate_event for the logins of one multi-device window, with a working
\* store
evaluate_in_window(ev, commit_ok) ==
    /\ evals < MaxLogins
    /\ evaluate_call(ev, {}, commit_ok)

\* twelve hours pass between two events
engine_tick ==
    /\ engine_now < 12 * MaxEngineTicks
    /\ engine_now' = engine_now + 12
    /\ UNCHANGED <<rules, location, devices, newdev, counter, audit_log,
                   last_event, last_decision, last_faults, evals, seen_at,
                   notEngine>>

\* a key of the state store reaches its TTL
key_expires(user, key) ==
    /\ \/ key = "location" /\ location[user] # "none"
          /\ location' = [location EXCEPT ![user] = "none"]
          /\ UNCHANGED <<devices, newdev, counter>>
       \/ key = "devices" /\ devices[user] # {}
          /\ devices' = [devices EXCEPT ![user] = {}]
          /\ UNCHANGED <<location, newdev, counter>>
       \/ key = "devices:5min" /\ newdev[user] # {}
          /\ newdev' = [newdev EXCEPT ![user] = {}]
          /\ UNCHANGED <<location, devices, counter>>
       \/ key = "transactions:hourly" /\ counter[user] # 0
          /\ counter' = [counter EXCEPT ![user] = 0]
          /\ UNCHANGED <<location, devices, newdev>>
    /\ UNCHANGED <<rules, audit_log, last_event, last_decision, last_faults, evals,
                   engine_now, seen_at,
                   notEngine>>

StoreKeys == {"location", "devices", "devices:5min", "transactions:hourly"}

\* the state store with no key set
ColdStore ==
    [location |-> [u \in Users |-> "none"], devices |-> [u \in Users |-> {}],
     newdev |-> [u \in Users |-> {}], counter |-> [u \in Users |-> 0]]

\* the state store after earlier traffic: u1 logged in from NYC on three new
\* devices within five minutes, u2 made RAPID_TXN transactions within the hour
WarmStore ==
    [location |-> [u \in Users |-> IF u = "u1" THEN "NYC" ELSE "none"],
     devices |-> [u \in Users |-> IF u = "u1" THEN {"d7", "d8", "d9"} ELSE {}],
     newdev |-> [u \in Users |-> IF u = "u1" THEN {"d7", "d8", "d9"} ELSE {}],
     counter |-> [u \in Users |-> IF u = "u2" THEN RAPID_TXN ELSE 0]]

InitEngineVars ==
    /\ rules \in RuleFiles
    /\ \E s \in {ColdStore, WarmStore} :
          /\ location = s.location
          /\ devices = s.devices
          /\ newdev = s.newdev
          /\ counter = s.counter
    /\ audit_log = <<>>
    /\ last_event = NoEvent
    /\ last_decision = FailOpen(NoEvent)
    /\ last_faults = {}
    /\ evals = 0
    /\ engine_now = 0
    /\ seen_at = [u \in Users |-> 0]

(***************************************************************************)
(* Crypto-chained audit service (services/crypto_audit.py), table          *)
(* crypto_chained_audit_logs.  Appends run in independent tasks; log_event *)
(* takes two steps, the query for the previous entry and the insert.       *)
(***************************************************************************)
Orgs == {"org1", "org2"}
TaskIds == {"t1", "t2"}

\* the log_event calls made: two organizations, with and without an actor,
\* with and without a sensitive key in the payload
AuditCall(org, actor_id, payload) ==
    [org |-> org, actor_id |-> actor_id, event_type |-> "rule_updated",
     payload |-> payload]

AuditCalls ==
    { AuditCall("org1", "user_456", [old_threshold |-> "5"]),
      AuditCall("org1", "none", [old_threshold |-> "5", password |-> "hunter2"]),
      AuditCall("org2", "user_456", [old_threshold |-> "5"]) }

\* what a stored payload is altered to by someone with write access to the table
TamperedPayload == [old_threshold |-> "50"]

NoHash == <<>>
NoCall == [org |-> "", actor_id |-> "none", event_type |-> "", payload |-> <<>>]

\* a key of the payload that names sensitive data (sensitive_fields)
Sensitive(key) == key \in {"password"}

\* _scrub_payload on a flat payload
scrub_payload(payload) ==
    [k \in DOMAIN payload |-> IF Sensitive(k) THEN "[REDACTED]" ELSE payload[k]]

\* "x or ''" of _calculate_hash
OrEmpty(x) == IF x = "none" THEN "" ELSE x

\* _calculate_hash: sha256 over previous_hash, actor_id, event_type, the
\* key-sorted json of the payload and the timestamp string; sha256 is taken to
\* be collision-free, so the hash is its input
calculate_hash(previous_hash, actor_id, event_type, payload, timestamp) ==
    <<previous_hash, OrEmpty(actor_id), event_type, payload, timestamp>>

\* the rows of one organization, by row id
RowsOf(org) == {i \in DOMAIN chain : chain[i].org = org}

\* order_by(timestamp.desc()).first(): a row of the organization with the
\* greatest timestamp (any of them on a tie), 0 if there is none
LatestRows(org) ==
    IF RowsOf(org) = {} THEN {0}
    ELSE {i \in RowsOf(org) : \A j \in RowsOf(org) : chain[j].timestamp <= chain[i].timestamp}

\* log_event [1]: read the previous entry's hash
log_event_read(t, call) ==
    /\ task[t].pc = "idle"
    /\ Len(chain) + Cardinality({u \in TaskIds : task[u].pc = "read"}) < MaxChain
    /\ \E p \in LatestRows(call.org) :
          task' = [task EXCEPT ![t] =
                     [pc |-> "read", call |-> call,
                      previous_hash |-> IF p = 0 THEN NoHash ELSE chain[p].current_hash]]
    /\ UNCHANGED <<chain, now, tampered, verify_report, notAudit>>

\* the row log_event builds: the hash is computed over the clock value read
\* first, the row stores the clock value read second
NewAuditRow(call, previous_hash, hash_time, row_time) ==
    [org |-> call.org, previous_hash |-> previous_hash,
     current_hash |-> calculate_hash(previous_hash, call.actor_id, call.event_type,
                                     scrub_payload(call.payload), hash_time),
     actor_id |-> call.actor_id, event_type |-> call.event_type,
     payload_json |-> scrub_payload(call.payload), timestamp |-> row_time]

\* log_event [2]-[4]: scrub, hash, insert and commit; the clock is read twice
\* (datetime.utcnow() for the hash, datetime.utcnow() for the row) and may
\* advance in between
log_event_insert(t, advance) ==
    /\ task[t].pc = "read"
    /\ now + advance <= MaxTime
    /\ chain' = Append(chain, NewAuditRow(task[t].call, task[t].previous_hash,
                                          now, now + advance))
    /\ now' = now + advance
    /\ task' = [task EXCEPT ![t] = [pc |-> "idle", call |-> NoCall,
                                    previous_hash |-> NoHash]]
    /\ UNCHANGED <<tampered, verify_report, notAudit>>

\* time passes
clock_tick ==
    /\ now < MaxTime
    /\ now' = now + 1
    /\ UNCHANGED <<chain, task, tampered, verify_report, notAudit>>

\* someone alters the stored payload of a row
tamper_payload(i) ==
    /\ i \in DOMAIN chain
    /\ i \notin tampered
    /\ chain[i].payload_json # TamperedPayload
    /\ chain' = [chain EXCEPT ![i].payload_json = TamperedPayload]
    /\ tampered' = tampered \cup {i}
    /\ UNCHANGED <<task, now, verify_report, notAudit>>

\* the orders in which order_by(timestamp.asc()) may return the rows
ReadOrders(org) ==
    {o \in Orderings(RowsOf(org)) :
        \A i, j \in DOMAIN o : i < j => chain[o[i]].timestamp <= chain[o[j]].timestamp}

\* the predecessor hash the linkage test of verify_chain_integrity compares with
LinkTarget(prev_row) == prev_row.current_hash

\* the issues verify_chain_integrity appends for the i-th log (index from 1)
IssuesAt(logs, i) ==
    LET log == chain[logs[i]]
        expected == calculate_hash(log.previous_hash, log.actor_id, log.event_type,
                                   log.payload_json, log.timestamp)
    IN (IF expected # log.current_hash
        THEN <<[log_id |-> logs[i], status |-> "TAMPERING DETECTED"]>> ELSE <<>>)
       \o
       (IF i > 1 /\ LinkTarget(chain[logs[i - 1]]) # log.previous_hash
        THEN <<[log_id |-> logs[i], status |-> "CHAIN BROKEN"]>> ELSE <<>>)

RECURSIVE IssuesFrom(_, _)
IssuesFrom(logs, i) ==
    IF i > Len(logs) THEN <<>> ELSE IssuesAt(logs, i) \o IssuesFrom(logs, i + 1)

\* the report of verify_chain_integrity when the rows come back as `logs`
VerifyReport(org, logs) ==
    [org |-> org, total_logs |-> Len(logs),
     integrity_verified |-> Len(IssuesFrom(logs, 1)) = 0,
     issues |-> IssuesFrom(logs, 1)]

\* verify_chain_integrity
verify_chain_integrity(org) ==
    /\ \E logs \in ReadOrders(org) : verify_report' = VerifyReport(org, logs)
    /\ UNCHANGED <<chain, task, now, tampered, notAudit>>

InitAuditVars ==
    /\ chain = <<>>
    /\ task = [t \in TaskIds |-> [pc |-> "idle", call |-> NoCall, previous_hash |-> NoHash]]
    /\ now = 1
    /\ tampered = {}
    /\ verify_report = [org |-> "", total_logs |-> 0, integrity_verified |-> TRUE,
                        issues |-> <<>>]

(***************************************************************************)
(* One velocity key under concurrent callers                               *)
(* (RedisStreamManager.increment_velocity_counter).  Every redis command   *)
(* is atomic; the method issues up to three of them.                       *)
(***************************************************************************)
\* the processes that share the redis instance
VelocityClients == {"w1", "w2", "w3"}

\* redis.exists(key): the caller remembers whether to create the key
vc_exists(c) ==
    /\ vclient[c] = "idle"
    /\ vstarted < MaxIncrements
    /\ vstarted' = vstarted + 1
    /\ vclient' = [vclient EXCEPT ![c] = IF vkey.present THEN "incr" ELSE "set"]
    /\ UNCHANGED <<vkey, vreturned, vexpired, notVelocity>>

\* redis.set(key, 0, ex=expiry_seconds)
vc_set(c) ==
    /\ vclient[c] = "set"
    /\ vkey' = [present |-> TRUE, value |-> 0, ttl |-> TRUE]
    /\ vclient' = [vclient EXCEPT ![c] = "incr"]
    /\ UNCHANGED <<vreturned, vstarted, vexpired, notVelocity>>

\* redis.incr(key) and the return of its value; INCR keeps the TTL of a key
\* that exists and creates a missing key without one
vc_incr(c) ==
    /\ vclient[c] = "incr"
    /\ vkey' = [present |-> TRUE, value |-> vkey.value + 1,
                ttl |-> vkey.present /\ vkey.ttl]
    /\ vreturned' = Append(vreturned, vkey.value + 1)
    /\ vclient' = [vclient EXCEPT ![c] = "idle"]
    /\ UNCHANGED <<vstarted, vexpired, notVelocity>>

\* the key reaches the TTL given to redis.set and is removed
vc_expire ==
    /\ vkey.present
    /\ vkey.ttl
    /\ vkey' = [present |-> FALSE, value |-> 0, ttl |-> FALSE]
    /\ vexpired' = TRUE
    /\ UNCHANGED <<vclient, vreturned, vstarted, notVelocity>>

InitVelocityVars ==
    /\ vkey = [present |-> FALSE, value |-> 0, ttl |-> FALSE]
    /\ vclient = [c \in VelocityClients |-> "idle"]
    /\ vreturned = <<>>
    /\ vstarted = 0
    /\ vexpired = FALSE

(***************************************************************************)
(* Rule registry (services/rule_manager.py).  A version label "1.0.n" is   *)
(* the number n; the sha256 of a content is the content (collision-free).  *)
(***************************************************************************)
\* contents the rule file may have; BAD has a rule without score
FileContents == {"A", "B", "C", "BAD"}

\* _validate_rules: the list of errors
validate_rules(content) ==
    IF content = "BAD" THEN <<"Rule 0: Missing 'score'">> ELSE <<>>

\* current_version = None
NoVersion == [version |-> -1, hash |-> "none"]

\* _generate_version: 1.0.0 without a current version, else patch + 1
generate_version == IF current_version = NoVersion THEN 0
                    ELSE current_version.version + 1

\* dict assignment d[k] = x
DictPut(d, k, x) == [v \in DOMAIN d \cup {k} |-> IF v = k THEN x ELSE d[v]]

\* the record of a call kept for the properties: what was called, the state
\* it found, the result it returned
OpRecord(name, force, arg, result) ==
    [name |-> name, force |-> force, arg |-> arg, file |-> rules_file,
     before |-> [rules |-> current_rules, version |-> current_version,
                 history |-> rule_history],
     result |-> result]

NoOp == [name |-> "none", force |-> FALSE, arg |-> -1, file |-> "none",
         before |-> [rules |-> "none", version |-> NoVersion, history |-> <<>>],
         result |-> [status |-> "none"]]

\* bookkeeping of a call that leaves version nv with rules nr current
Logged(rec, nv, nr) ==
    /\ oplog' = <<oplog[2], rec>>
    /\ registry_ops' = registry_ops + 1
    /\ installed' = IF nv = NoVersion THEN installed
                    ELSE installed \cup {<<nv.version, nr>>}

OpsLeft == registry_ops < MaxRegistryOps

\* the state reload_rules leaves and the result it returns:
\* [rules, version, history, stored, result]
ReloadOutcome(force) ==
    LET new_hash == rules_file
        same == [rules |-> current_rules, version |-> current_version,
                 history |-> rule_history, stored |-> FALSE]
    IN IF current_version # NoVersion /\ current_version.hash = "missing"
          /\ (~force \/ validate_rules(rules_file) = <<>>)
       THEN \* current_version["hash"] raises KeyError, caught by except Exception
            same @@ [result |-> [status |-> "error"]]
       ELSE IF ~force /\ current_version # NoVersion /\ new_hash = current_version.hash
       THEN same @@ [result |-> [status |-> "unchanged",
                                 current_version |-> current_version.version]]
       ELSE IF validate_rules(rules_file) # <<>>
       THEN same @@ [result |-> [status |-> "validation_failed",
                                 errors |-> validate_rules(rules_file)]]
       ELSE [rules |-> rules_file,
             version |-> [version |-> generate_version, hash |-> new_hash],
             history |-> IF current_version = NoVersion THEN rule_history
                         ELSE DictPut(rule_history, current_version.version,
                                      [rules |-> current_rules,
                                       hash |-> current_version.hash]),
             stored |-> TRUE,
             result |-> [status |-> "success", version |-> generate_version]]

\* _store_rules_in_redis
store_rules_in_redis(version, content) ==
    /\ redis_rules' = DictPut(redis_rules, version, content)
    /\ redis_current' = version

\* reload_rules
reload_rules(force) ==
    /\ OpsLeft
    /\ \E out \in {ReloadOutcome(force)} :
          /\ current_rules' = out.rules
          /\ current_version' = out.version
          /\ rule_history' = out.history
          /\ IF out.stored THEN store_rules_in_redis(out.version.version, out.rules)
             ELSE UNCHANGED <<redis_rules, redis_current>>
          /\ Logged(OpRecord("reload", force, -1, out.result), out.version, out.rules)
    /\ UNCHANGED <<rules_file, notRegistry>>

\* rollback_rules
rollback_rules(version) ==
    /\ OpsLeft
    /\ current_version # NoVersion
    /\ IF version \notin DOMAIN rule_history
       THEN /\ Logged(OpRecord("rollback", FALSE, version, [status |-> "error"]),
                      current_version, current_rules)
            /\ UNCHANGED <<current_rules, current_version, rule_history,
                           redis_rules, redis_current>>
       ELSE /\ current_rules' = rule_history[version].rules
            /\ current_version' = [version |-> version,
                                   hash |-> rule_history[version].hash]
            /\ store_rules_in_redis(version, rule_history[version].rules)
            /\ Logged(OpRecord("rollback", FALSE, version,
                               [status |-> "success", rolled_back_to |-> version]),
                      [version |-> version, hash |-> rule_history[version].hash],
                      rule_history[version].rules)
            /\ UNCHANGED rule_history
    /\ UNCHANGED <<rules_file, notRegistry>>

\* load_rules_from_redis: version -1 stands for None (the current pointer)
load_rules_from_redis(version) ==
    /\ OpsLeft
    /\ LET v == IF version = -1 THEN redis_current ELSE version
       IN IF v \notin DOMAIN redis_rules
          THEN /\ Logged(OpRecord("load", FALSE, version, [status |-> "error"]),
                         current_version, current_rules)
               /\ UNCHANGED <<current_rules, current_version>>
          ELSE /\ current_rules' = redis_rules[v]
               /\ current_version' = [version |-> v, hash |-> "missing"]
               /\ Logged(OpRecord("load", FALSE, version,
                                  [status |-> "success", version |-> v]),
                         [version |-> v, hash |-> "missing"], redis_rules[v])
    /\ UNCHANGED <<rules_file, rule_history, redis_rules, redis_current, notRegistry>>

\* the operator edits the rule file
edit_rules_file(content) ==
    /\ content # rules_file
    /\ rules_file' = content
    /\ UNCHANGED <<current_rules, current_version, rule_history, redis_rules,
                   redis_current, oplog, registry_ops, installed, notRegistry>>

\* RuleManager.__init__ : empty registry, then reload_rules() on the file
InitRegistryVars ==
    /\ rules_file \in {"A", "BAD"}
    /\ current_rules = IF rules_file = "A" THEN "A" ELSE "none"
    /\ current_version = IF rules_file = "A" THEN [version |-> 0, hash |-> "A"]
                         ELSE NoVersion
    /\ rule_history = <<>>
    /\ redis_rules = IF rules_file = "A" THEN DictPut(<<>>, 0, "A") ELSE <<>>
    /\ redis_current = IF rules_file = "A" THEN 0 ELSE -1
    /\ oplog = <<NoOp, NoOp>>
    /\ registry_ops = 0
    /\ installed = IF rules_file = "A" THEN {<<0, "A">>} ELSE {}

(***************************************************************************)
(* The registry under concurrent requests.  The routes of routes/rules.py  *)
(* are plain functions, which the server runs on worker threads; the       *)
(* RuleManager holds no lock.  One thread runs reload_rules or             *)
(* rollback_rules (the single writer), another serves GET /rules/current.  *)
(***************************************************************************)
IdleWriter == [pc |-> "idle", version |-> NoVersion, rec |-> NoOp]

NewReader == [pc |-> "start", rules |-> "none", version |-> -1]

\* reload_rules of a changed, valid file up to and including
\* "self.current_rules = raw_rules"
reload_assign_rules(force) ==
    /\ OpsLeft
    /\ writer.pc = "idle"
    /\ \E out \in {ReloadOutcome(force)} :
          /\ out.stored
          /\ rule_history' = out.history
          /\ current_rules' = out.rules
          /\ writer' = [pc |-> "assign_version", version |-> out.version,
                        rec |-> OpRecord("reload", force, -1, out.result)]
    /\ UNCHANGED <<rules_file, current_version, redis_rules, redis_current,
                   oplog, registry_ops, installed, reader, notSwap>>

\* rollback_rules to a version of the history up to and including
\* "self.current_rules = prev_data["rules"]"
rollback_assign_rules(version) ==
    /\ OpsLeft
    /\ writer.pc = "idle"
    /\ current_version # NoVersion
    /\ version \in DOMAIN rule_history
    /\ current_rules' = rule_history[version].rules
    /\ writer' = [pc |-> "assign_version",
                  version |-> [version |-> version,
                               hash |-> rule_history[version].hash],
                  rec |-> OpRecord("rollback", FALSE, version,
                                   [status |-> "success",
                                    rolled_back_to |-> version])]
    /\ UNCHANGED <<rules_file, current_version, rule_history, redis_rules,
                   redis_current, oplog, registry_ops, installed, reader,
                   notSwap>>

\* the rest of either call: "self.current_version = {...}", then
\* _store_rules_in_redis and the return
assign_version ==
    /\ writer.pc = "assign_version"
    /\ current_version' = writer.version
    /\ store_rules_in_redis(writer.version.version, current_rules)
    /\ Logged(writer.rec, writer.version, current_rules)
    /\ writer' = IdleWriter
    /\ UNCHANGED <<rules_file, current_rules, rule_history, reader, notSwap>>

\* get_current_rules: rules = rule_manager.get_rules()
get_rules ==
    /\ reader.pc = "start"
    /\ reader' = [reader EXCEPT !.pc = "rules_read", !.rules = current_rules]
    /\ UNCHANGED <<registryVars, writer, notSwap>>

\* get_current_rules: version = rule_manager.get_rule_version()
get_rule_version ==
    /\ reader.pc = "rules_read"
    /\ reader' = [reader EXCEPT !.pc = "done",
                                !.version = current_version.version]
    /\ UNCHANGED <<registryVars, writer, notSwap>>

InitSwapVars ==
    /\ writer = IdleWriter
    /\ reader = NewReader


(***************************************************************************)
(* Shadow-mode results and their labelling (services/shadow_mode.py,       *)
(* POST /shadow-mode/label/{result_id} in routes/milestone_1_2.py).        *)
(* A nullable column holds "null" for NULL.                                *)
(***************************************************************************)
ResultIds == {"r1", "r2"}

\* the callers of the route: id and role (core/rbac.py Role)
ShadowUsers == { [id |-> "ana1", role |-> "risk_analyst", org_id |-> "org1"],
                 [id |-> "adm1", role |-> "admin", org_id |-> "org2"],
                 [id |-> "ds1", role |-> "data_scientist", org_id |-> "org1"] }

ShadowOrgs == {"org1", "org2"}

\* the shadow rule whose evaluations are logged
SHADOW_RULE == "rule1"

\* no row with this id
NoResult == [present |-> FALSE, organization_id |-> "null",
             rule_id |-> "null", would_have_blocked |-> FALSE,
             actual_fraud |-> "null", labeled_at |-> -1,
             labeled_by_user_id |-> "null", timestamp |-> -1]

BoolColumn(b) == IF b THEN "true" ELSE "false"

\* ShadowModeService.log_shadow_evaluation : a new, unlabeled row
log_shadow_evaluation(id, org_id, rule_id, would_have_blocked) ==
    /\ ~shadow_results[id].present
    /\ shadow_results' = [shadow_results EXCEPT ![id] =
          [present |-> TRUE, organization_id |-> org_id, rule_id |-> rule_id,
           would_have_blocked |-> would_have_blocked,
           actual_fraud |-> "null", labeled_at |-> -1,
           labeled_by_user_id |-> "null", timestamp |-> shadow_now]]
    /\ UNCHANGED <<shadow_now, last_label, notShadow>>

\* ShadowModeService.label_result : the table after the call, and whether a
\* row was found
label_result(table, result_id, actual_fraud, analyst_id, t) ==
    IF ~table[result_id].present
    THEN [found |-> FALSE, table |-> table]
    ELSE [found |-> TRUE,
          table |-> [table EXCEPT ![result_id] =
                        [@ EXCEPT !.actual_fraud = BoolColumn(actual_fraud),
                                  !.labeled_at = t,
                                  !.labeled_by_user_id = analyst_id]]]

\* POST /shadow-mode/label/{result_id}
label_shadow_result(result_id, actual_fraud, current_user) ==
    LET request == [result_id |-> result_id, actual_fraud |-> actual_fraud,
                    user |-> current_user.id, org_id |-> current_user.org_id]
        before == shadow_results[result_id]
    IN IF current_user.role \notin {"risk_analyst", "admin"}
       THEN /\ last_label' = [request |-> request, before |-> before,
                              status_code |-> 403]
            /\ UNCHANGED <<shadow_results, shadow_now, notShadow>>
       ELSE \E r \in {label_result(shadow_results, result_id, actual_fraud,
                                   current_user.id, shadow_now)} :
               /\ shadow_results' = r.table
               /\ last_label' = [request |-> request, before |-> before,
                                 status_code |-> IF r.found THEN 200 ELSE 404]
               /\ UNCHANGED <<shadow_now, notShadow>>

\* the labeled rows of a rule and an organization with
\* from_day <= timestamp < to_day.  The clock counts days; a call reads
\* utcnow() later than every timestamp stored at the same clock value, so
\* "timestamp >= utcnow() - d" is timestamp > shadow_now - d and
\* "timestamp < utcnow() - d" is timestamp <= shadow_now - d.
LabeledResults(rule_id, org_id, older, newer) ==
    { id \in ResultIds :
        /\ shadow_results[id].present
        /\ shadow_results[id].rule_id = rule_id
        /\ shadow_results[id].organization_id = org_id
        /\ shadow_results[id].timestamp > shadow_now - older
        /\ shadow_results[id].timestamp <= shadow_now - newer
        /\ shadow_results[id].actual_fraud # "null" }

\* n / d rounded to four places, in ten-thousandths; 0 if d = 0
Ratio4(n, d) == IF d = 0 THEN 0 ELSE (2 * n * 10000 + d) \div (2 * d)

\* ShadowModeService.calculate_rule_accuracy with a window in days
calculate_rule_accuracy(rule_id, org_id, time_window_days) ==
    LET results == LabeledResults(rule_id, org_id, time_window_days, 0)
        Count(blocked, fraud) ==
            Cardinality({ id \in results :
                /\ shadow_results[id].would_have_blocked = blocked
                /\ shadow_results[id].actual_fraud = BoolColumn(fraud) })
        tp == Count(TRUE, TRUE)
        fp == Count(TRUE, FALSE)
        fn == Count(FALSE, TRUE)
        tn == Count(FALSE, FALSE)
    IN IF results = {}
       THEN [rule_id |-> rule_id, sample_size |-> 0, precision |-> -1,
             recall |-> -1, f1_score |-> -1, confusion_matrix |-> <<>>]
       ELSE [rule_id |-> rule_id, sample_size |-> Cardinality(results),
             precision |-> Ratio4(tp, tp + fp),
             recall |-> Ratio4(tp, tp + fn),
             f1_score |-> Ratio4(2 * tp, 2 * tp + fp + fn),
             confusion_matrix |-> <<tp, fp, fn, tn>>]

\* ShadowModeService.get_accuracy_trends: the entries of the day offsets
\* day_offset .. days - 1
RECURSIVE accuracy_trends_from(_, _, _, _)
accuracy_trends_from(day_offset, rule_id, org_id, days) ==
    IF day_offset >= days THEN <<>>
    ELSE LET results == LabeledResults(rule_id, org_id, day_offset + 1, day_offset)
             accuracy == calculate_rule_accuracy(rule_id, org_id, 1)
             rest == accuracy_trends_from(day_offset + 1, rule_id, org_id, days)
         IN IF results = {} THEN rest
            ELSE <<[accuracy EXCEPT !.sample_size = Cardinality(results)]
                       @@ [date |-> shadow_now - (day_offset + 1)]>> \o rest

get_accuracy_trends(rule_id, org_id, days) ==
    accuracy_trends_from(0, rule_id, org_id, days)

\* time passes
shadow_tick ==
    /\ shadow_now < MaxShadowTime
    /\ shadow_now' = shadow_now + 1
    /\ UNCHANGED <<shadow_results, last_label, notShadow>>

NoLabel == [request |-> [result_id |-> "none", actual_fraud |-> FALSE,
                         user |-> "none", org_id |-> "none"],
            before |-> NoResult, status_code |-> 0]

InitShadowVars ==
    /\ shadow_results = [id \in ResultIds |-> NoResult]
    /\ shadow_now = 0
    /\ last_label = NoLabel

(***************************************************************************)
(* Link analysis (services/link_analysis.py), table user_connections.      *)
(* User ids are strings compared with > ; the numbers 1..3 stand for three *)
(* ids in their string order.                                              *)
(***************************************************************************)
LinkUsers == 1..3
LinkOrgs == {"org1", "org2"}
Strengths == {30, 80}

\* the arguments of one record_connection call
LinkInputs ==
    [org : {"org1"}, a : LinkUsers, b : LinkUsers, type : {"ip_address"},
     strength : {30}]
    \cup [org : {"org1"}, a : {1, 2}, b : {1, 2}, type : {"ip_address"},
          strength : Strengths]
    \cup [org : {"org1"}, a : {1}, b : {2}, type : {"device"}, strength : {30}]
    \cup [org : {"org2"}, a : {1}, b : {2}, type : {"ip_address"},
          strength : {30}]

\* the rows the query of record_connection matches
ExistingConnections(org_id, user_a_id, user_b_id, connection_type) ==
    { c \in connections : /\ c.organization_id = org_id
                          /\ c.user_a_id = user_a_id
                          /\ c.user_b_id = user_b_id
                          /\ c.connection_type = connection_type }

\* LinkAnalysisService.record_connection
record_connection(org_id, a, b, connection_type, connection_strength) ==
    LET user_a_id == IF a > b THEN b ELSE a
        user_b_id == IF a > b THEN a ELSE b
        found == ExistingConnections(org_id, user_a_id, user_b_id,
                                     connection_type)
    IN /\ Len(link_calls) < MaxLinkCalls
       /\ link_calls' = Append(link_calls,
             [org |-> org_id, a |-> a, b |-> b, type |-> connection_type,
              strength |-> connection_strength])
       /\ IF found # {}
          THEN \E existing \in found :
                  connections' = (connections \ {existing}) \cup
                      {[existing EXCEPT !.event_count = @ + 1]}
          ELSE connections' = connections \cup
                  {[organization_id |-> org_id, user_a_id |-> user_a_id,
                    user_b_id |-> user_b_id,
                    connection_type |-> connection_type,
                    connection_strength |-> connection_strength,
                    event_count |-> 1, is_flagged_ring |-> FALSE]}
       /\ last_flag' = [org |-> "none", user_ids |-> <<>>]
       /\ UNCHANGED notLinks

\* the inner loop of flag_ring: user_a is the loop variable of the outer
\* loop, and the swap assigns to it
RECURSIVE FlagInner(_, _, _)
FlagInner(user_a, rest, queried) ==
    IF rest = <<>> THEN queried
    ELSE LET user_b == Head(rest)
             a2 == IF user_a > user_b THEN user_b ELSE user_a
             b2 == IF user_a > user_b THEN user_a ELSE user_b
         IN FlagInner(a2, Tail(rest), queried \cup {<<a2, b2>>})

\* the outer loop of flag_ring: the pairs (user_a, user_b) it queries
RECURSIVE FlagOuter(_, _)
FlagOuter(user_ids, queried) ==
    IF user_ids = <<>> THEN queried
    ELSE FlagOuter(Tail(user_ids),
                   FlagInner(Head(user_ids), Tail(user_ids), queried))

\* the user lists given to flag_ring
RingLists == UNION { [1..n -> LinkUsers] : n \in 2..MaxRing }

\* LinkAnalysisService.flag_ring
flag_ring(org_id, user_ids) ==
    LET queried == FlagOuter(user_ids, {})
        hit(c) == /\ c.organization_id = org_id
                  /\ <<c.user_a_id, c.user_b_id>> \in queried
    IN /\ connections # {}
       /\ connections' = { IF hit(c) THEN [c EXCEPT !.is_flagged_ring = TRUE]
                           ELSE c : c \in connections }
       /\ last_flag' = [org |-> org_id, user_ids |-> user_ids]
       /\ UNCHANGED <<link_calls, notLinks>>

InitLinkVars ==
    /\ connections = {}
    /\ link_calls = <<>>
    /\ last_flag = [org |-> "none", user_ids |-> <<>>]

(***************************************************************************)
(* record_connection called from two database sessions at once, for the   *)
(* same unordered pair of one organization.  The table has no unique      *)
(* constraint besides its primary key, and the query takes no row lock.   *)
(***************************************************************************)
Sessions == {"s1", "s2"}

PairTypes == {"ip_address", "device"}

\* the two orders in which the same pair of users is given
PairOrders == {<<1, 2>>, <<2, 1>>}

IdleSession == [pc |-> "idle", a |-> 0, b |-> 0, type |-> "none",
                existing |-> 0, event_count |-> 0]

\* the first row the query of record_connection matches (0 = None)
FirstConnection(org_id, user_a_id, user_b_id, connection_type) ==
    LET found == { i \in DOMAIN edges :
                      /\ edges[i].organization_id = org_id
                      /\ edges[i].user_a_id = user_a_id
                      /\ edges[i].user_b_id = user_b_id
                      /\ edges[i].connection_type = connection_type }
    IN IF found = {} THEN 0 ELSE CHOOSE i \in found : \A k \in found : i <= k

\* record_connection up to and including the query: the pair is ordered
\* and the session loads the existing row, if any
record_connection_query(s, a, b, connection_type) ==
    LET user_a_id == IF a > b THEN b ELSE a
        user_b_id == IF a > b THEN a ELSE b
        i == FirstConnection("org1", user_a_id, user_b_id, connection_type)
    IN /\ session[s].pc = "idle"
       /\ pair_started < MaxPairCalls
       /\ pair_started' = pair_started + 1
       /\ session' = [session EXCEPT ![s] =
              [pc |-> "queried", a |-> user_a_id, b |-> user_b_id,
               type |-> connection_type, existing |-> i,
               event_count |-> IF i = 0 THEN 0 ELSE edges[i].event_count]]
       /\ UNCHANGED <<edges, pair_done, notPair>>

\* the rest of record_connection: the loaded row gets the count the session
\* read plus one, or a new row is added; then the commit
record_connection_commit(s) ==
    /\ session[s].pc = "queried"
    /\ IF session[s].existing # 0
       THEN edges' = [edges EXCEPT ![session[s].existing].event_count =
                                      session[s].event_count + 1]
       ELSE edges' = Append(edges,
               [organization_id |-> "org1", user_a_id |-> session[s].a,
                user_b_id |-> session[s].b,
                connection_type |-> session[s].type, event_count |-> 1])
    /\ pair_done' = [pair_done EXCEPT ![session[s].type] = @ + 1]
    /\ session' = [session EXCEPT ![s] = IdleSession]
    /\ UNCHANGED <<pair_started, notPair>>

InitPairVars ==
    /\ edges = <<>>
    /\ session = [s \in Sessions |-> IdleSession]
    /\ pair_done = [t \in PairTypes |-> 0]
    /\ pair_started = 0

(***************************************************************************)
(* POST /auth/token/refresh (api/auth.py, core/auth_utils.py) under        *)
(* concurrent requests.  The route is a plain function run on worker       *)
(* threads, each with its own database session.  One active user; tokens   *)
(* do not expire and the session limit is not reached within the bound.    *)
(***************************************************************************)
RefreshClients == {"q1", "q2"}

IdleRequest == [pc |-> "idle", token |-> 0]

\* validate_refresh_token: is there a row for the token that is not revoked
validate_refresh_token(token) ==
    token \in DOMAIN refresh_tokens /\ ~refresh_tokens[token].is_revoked

\* revoke_refresh_token: the table after the call; a token that is revoked
\* already is not among the rows read, and the call returns False
revoke_refresh_token(token) ==
    IF validate_refresh_token(token)
    THEN [refresh_tokens EXCEPT ![token].is_revoked = TRUE]
    ELSE refresh_tokens

\* refresh_token up to the check of the token and of the user: 401 for a
\* token that is unknown or revoked
refresh_token_validate(q, token) ==
    /\ refresh_req[q].pc = "idle"
    /\ Len(refresh_log)
         + Cardinality({c \in RefreshClients : refresh_req[c].pc # "idle"})
           < MaxRefresh
    /\ IF validate_refresh_token(token)
       THEN /\ refresh_req' = [refresh_req EXCEPT ![q] =
                   [pc |-> "validated", token |-> token]]
            /\ UNCHANGED refresh_log
       ELSE /\ refresh_log' = Append(refresh_log,
                                     [token |-> token, status |-> 401])
            /\ UNCHANGED refresh_req
    /\ UNCHANGED <<refresh_tokens, notToken>>

\* the rest of refresh_token: the old token is revoked (the result of
\* revoke_refresh_token is not looked at), a new token is stored and
\* returned
refresh_token_rotate(q) ==
    /\ refresh_req[q].pc = "validated"
    /\ refresh_tokens' = Append(revoke_refresh_token(refresh_req[q].token),
                                [is_revoked |-> FALSE])
    /\ refresh_log' = Append(refresh_log,
                             [token |-> refresh_req[q].token, status |-> 200])
    /\ refresh_req' = [refresh_req EXCEPT ![q] = IdleRequest]
    /\ UNCHANGED notToken

\* after a login: one refresh token stored
InitTokenVars ==
    /\ refresh_tokens = <<[is_revoked |-> FALSE]>>
    /\ refresh_req = [q \in RefreshClients |-> IdleRequest]
    /\ refresh_log = <<>>

(***************************************************************************)
(* Webhook delivery (services/webhook_service.py), tables webhooks and     *)
(* webhook_deliveries.  One webhook; the clock counts minutes; NULL in     *)
(* next_retry_at and status_code is -1.                                    *)
(***************************************************************************)
\* WebhookService.retry_delays, in minutes
retry_delays == <<1, 5, 15>>

\* what a request to the endpoint ends in: a status code, or 0 for
\* requests.Timeout
EndpointAnswers == {200, 500, 0}

\* the values PUT /webhooks/{id} sets max_retries to
RetrySettings == {1, DEFAULT_MAX_RETRIES, 5}

\* the row deliver adds on a response, and _record_failed_delivery on a
\* timeout
DeliveryRecord(event_id, attempt, answer) ==
    LET is_successful == answer # 0 /\ answer < 300
    IN [event_id |-> event_id,
        attempt_number |-> attempt,
        status_code |-> IF answer = 0 THEN -1 ELSE answer,
        is_successful |-> is_successful,
        is_final_attempt |-> attempt >= webhook.max_retries,
        next_retry_at |-> IF /\ ~is_successful
                             /\ attempt < webhook.max_retries
                             /\ attempt <= Len(retry_delays)
                          THEN wh_now + retry_delays[attempt]
                          ELSE -1]

\* the failure branch reads retry_delays[attempt - 1]: IndexError beyond the
\* last delay
RetryDelayRaises(attempt, answer) ==
    /\ ~(answer # 0 /\ answer < 300)
    /\ attempt < webhook.max_retries
    /\ attempt > Len(retry_delays)

\* the webhook row with n failed attempts counted
CountFailed(n) ==
    [webhook EXCEPT !.total_deliveries = @ + n, !.failed_deliveries = @ + n]

\* WebhookService.deliver with _record_failed_delivery : the two tables
\* after the call.  When retry_delays[attempt - 1] raises, the handler
\* `except Exception` calls _record_failed_delivery, which counts the
\* attempt again and raises at the same expression; the exception leaves
\* deliver before db.commit(), and the session's pending changes are
\* persisted only if the caller commits the session (committed).
DeliverOutcome(event_id, attempt, answer, committed) ==
    LET record == DeliveryRecord(event_id, attempt, answer)
    IN IF ~RetryDelayRaises(attempt, answer)
       THEN [deliveries |-> Append(deliveries, record),
             webhook |-> [webhook EXCEPT
                 !.total_deliveries = @ + 1,
                 !.successful_deliveries =
                     IF record.is_successful THEN @ + 1 ELSE @,
                 !.failed_deliveries =
                     IF record.is_successful THEN @ ELSE @ + 1]]
       ELSE IF ~committed
       THEN [deliveries |-> deliveries, webhook |-> webhook]
       ELSE IF answer = 0
       THEN [deliveries |-> deliveries, webhook |-> CountFailed(1)]
       ELSE [deliveries |-> Append(deliveries, record),
             webhook |-> CountFailed(2)]

\* WebhookService.deliver(webhook, risk_score, db), attempt = 1
deliver(event_id, answer) ==
    \E r \in {DeliverOutcome(event_id, 1, answer, TRUE)} :
       /\ wh_events < MaxWebhookEvents
       /\ event_id = wh_events + 1
       /\ wh_events' = event_id
       /\ endpoint' = Append(endpoint, answer)
       /\ deliveries' = r.deliveries
       /\ webhook' = r.webhook
       /\ UNCHANGED <<wh_now, retry_logged, notWebhook>>

\* WebhookService.deliver(webhook, risk_score, db, attempt) called for any
\* attempt number
deliver_attempt(event_id, attempt, answer, committed) ==
    \E r \in {DeliverOutcome(event_id, attempt, answer, committed)} :
       /\ Len(endpoint) < MaxRequests
       /\ endpoint' = Append(endpoint, answer)
       /\ deliveries' = r.deliveries
       /\ webhook' = r.webhook
       /\ UNCHANGED <<wh_now, wh_events, retry_logged, notWebhook>>

\* WebhookService.process_pending_retries : the due rows are read and a
\* retry is logged for each
process_pending_retries ==
    LET pending == { i \in DOMAIN deliveries :
                        /\ deliveries[i].next_retry_at # -1
                        /\ deliveries[i].next_retry_at <= wh_now
                        /\ ~deliveries[i].is_final_attempt }
    IN /\ retry_logged' = retry_logged \cup pending
       /\ UNCHANGED <<webhook, deliveries, endpoint, wh_now, wh_events,
                      notWebhook>>

\* PUT /webhooks/{webhook_id} with max_retries
update_webhook(max_retries) ==
    /\ max_retries # webhook.max_retries
    /\ webhook' = [webhook EXCEPT !.max_retries = max_retries]
    /\ UNCHANGED <<deliveries, endpoint, wh_now, wh_events, retry_logged,
                   notWebhook>>

\* time passes
wh_tick ==
    /\ wh_now < MaxWebhookTime
    /\ wh_now' = wh_now + 1
    /\ UNCHANGED <<webhook, deliveries, endpoint, wh_events, retry_logged,
                   notWebhook>>

InitWebhookVars ==
    /\ webhook = [total_deliveries |-> 0, successful_deliveries |-> 0,
                  failed_deliveries |-> 0, max_retries |-> DEFAULT_MAX_RETRIES]
    /\ deliveries = <<>>
    /\ endpoint = <<>>
    /\ wh_now = 0
    /\ wh_events = 0
    /\ retry_logged = {}

(***************************************************************************)
(* Specifications.                                                         *)
(***************************************************************************)
\* every subsystem as constructed
InitAllVars ==
    /\ InitOutboxVars /\ InitEngineVars /\ InitAuditVars /\ InitVelocityVars
    /\ InitRegistryVars
    /\ InitShadowVars /\ InitLinkVars /\ InitWebhookVars
    /\ InitSwapVars /\ InitPairVars /\ InitTokenVars

\* the engine with the default rule file and a cold store
EngineAtRest == rules = DefaultRuleFile /\ counter = ColdStore.counter

\* the registry constructed on a valid rule file
RegistryAtRest == rules_file = "A"

AllAtRest == EngineAtRest /\ RegistryAtRest

InitEngine == InitAllVars /\ RegistryAtRest

InitOutbox == InitAllVars /\ AllAtRest

InitAudit == InitAllVars /\ AllAtRest

InitRegistry == InitAllVars /\ EngineAtRest

NextRegistry ==
    \/ \E force \in BOOLEAN : reload_rules(force)
    \/ \E v \in 0..MaxRegistryOps : rollback_rules(v)
    \/ \E v \in -1..MaxRegistryOps : load_rules_from_redis(v)
    \/ \E c \in FileContents : edit_rules_file(c)

SpecRegistry == InitRegistry /\ [][NextRegistry]_vars

InitShadow == InitAllVars /\ AllAtRest

NextShadow ==
    \/ \E id \in ResultIds, org \in ShadowOrgs, b \in BOOLEAN :
          log_shadow_evaluation(id, org, SHADOW_RULE, b)
    \/ \E id \in ResultIds, f \in BOOLEAN, u \in ShadowUsers :
          label_shadow_result(id, f, u)
    \/ shadow_tick

SpecShadow == InitShadow /\ [][NextShadow]_vars

InitLinks == InitAllVars /\ AllAtRest

NextLinks ==
    \/ \E i \in LinkInputs :
          record_connection(i.org, i.a, i.b, i.type, i.strength)
    \/ \E org \in LinkOrgs, user_ids \in RingLists : flag_ring(org, user_ids)

SpecLinks == InitLinks /\ [][NextLinks]_vars

InitWebhook == InitAllVars /\ AllAtRest

NextWebhook ==
    \/ \E e \in 1..MaxWebhookEvents, answer \in EndpointAnswers :
          deliver(e, answer)
    \/ process_pending_retries
    \/ \E m \in RetrySettings : update_webhook(m)
    \/ wh_tick

SpecWebhook == InitWebhook /\ [][NextWebhook]_vars

\* deliver called for any attempt of an event
NextDeliver ==
    \/ \E e \in 1..MaxWebhookEvents, n \in 1..MaxAttempt,
          answer \in EndpointAnswers, committed \in BOOLEAN :
          deliver_attempt(e, n, answer, committed)
    \/ \E m \in RetrySettings : update_webhook(m)
    \/ wh_tick

SpecDeliver == InitWebhook /\ [][NextDeliver]_vars

InitSwap == InitAllVars /\ AllAtRest

\* a writer thread and one request to GET /rules/current, interleaved
NextSwap ==
    \/ \E force \in BOOLEAN : reload_assign_rules(force)
    \/ \E v \in 0..MaxRegistryOps : rollback_assign_rules(v)
    \/ assign_version
    \/ \E c \in FileContents : edit_rules_file(c)
    \/ get_rules
    \/ get_rule_version

SpecSwap == InitSwap /\ [][NextSwap]_vars

InitPair == InitAllVars /\ AllAtRest

NextPair ==
    \/ \E s \in Sessions, p \in PairOrders, t \in PairTypes :
          record_connection_query(s, p[1], p[2], t)
    \/ \E s \in Sessions : record_connection_commit(s)

SpecPair == InitPair /\ [][NextPair]_vars

\* the meta-combination step on its own, for every configured list
InitCombo == InitAllVars /\ AllAtRest

NextCombo ==
    \/ \E file \in ComboRuleFiles : load_combinations(file)
    \/ \E score \in ScoreInputs : apply_determine_action(score)
    \/ \E triggered \in TriggeredInputs : apply_rule_combinations(triggered)

SpecCombo == InitCombo /\ [][NextCombo]_vars

InitToken == InitAllVars /\ AllAtRest

\* requests presenting any token issued so far
NextToken ==
    \/ \E q \in RefreshClients, token \in 1..(MaxRefresh + 1) :
          refresh_token_validate(q, token)
    \/ \E q \in RefreshClients : refresh_token_rotate(q)

SpecToken == InitToken /\ [][NextToken]_vars

\* the retry processor runs again and again, and time passes
FairWebhook ==
    SpecWebhook /\ WF_vars(process_pending_retries) /\ WF_vars(wh_tick)

NextEngine ==
    \/ \E ev \in EngineEvents, faults \in FaultPatterns, ok \in BOOLEAN :
          evaluate_event(ev, faults, ok)
    \/ \E u \in Users, k \in StoreKeys : key_expires(u, k)

SpecEngine == InitEngine /\ [][NextEngine]_vars

\* _determine_action over rule files with every ordered choice of thresholds
InitAction == InitAllVars /\ AllAtRest

NextAction ==
    \/ \E th \in ThresholdSets : load_rules(th)
    \/ \E score \in ScoreInputs : apply_determine_action(score)

SpecAction == InitAction /\ [][NextAction]_vars

\* logins over time, the default rule file, a working store
InitTravel == InitAllVars /\ RegistryAtRest /\ rules = DefaultRuleFile

NextTravel ==
    \/ \E ev \in TravelEvents, ok \in BOOLEAN : evaluate_event(ev, {}, ok)
    \/ engine_tick

SpecTravel == InitTravel /\ [][NextTravel]_vars

\* logins within one multi-device window, starting with no device known
InitDevices == InitAllVars /\ AllAtRest /\ devices = ColdStore.devices

NextDevices ==
    \E ev \in DeviceEvents, ok \in BOOLEAN : evaluate_in_window(ev, ok)

SpecDevices == InitDevices /\ [][NextDevices]_vars

\* transaction attempts within one hour, starting with no counter
InitRapid == InitAllVars /\ AllAtRest

NextRapid ==
    \E ev \in RapidEvents, ok \in BOOLEAN : evaluate_in_hour(ev, ok)

SpecRapid == InitRapid /\ [][NextRapid]_vars

NextAudit ==
    \/ \E t \in TaskIds, call \in AuditCalls : log_event_read(t, call)
    \/ \E t \in TaskIds, advance \in {0, 1} : log_event_insert(t, advance)
    \/ clock_tick
    \/ \E i \in 1..MaxChain : tamper_payload(i)
    \/ \E org \in Orgs : verify_chain_integrity(org)

SpecAudit == InitAudit /\ [][NextAudit]_vars

InitVelocity == InitAllVars /\ AllAtRest

NextVelocity ==
    \/ \E c \in VelocityClients : vc_exists(c)
    \/ \E c \in VelocityClients : vc_set(c)
    \/ \E c \in VelocityClients : vc_incr(c)
    \/ vc_expire

SpecVelocity == InitVelocity /\ [][NextVelocity]_vars

\* OutboxWriter and OutboxPoller alone
NextOutbox ==
    \/ \E e \in WriterInputs : write_event(e.event_id, e.event_type)
    \/ poll_cycle_fetch
    \/ publish_event_ok
    \/ publish_event_fail
    \/ mark_published
    \/ increment_retry
    \/ mark_failed
    \/ poller_crash

SpecOutbox == InitOutbox /\ [][NextOutbox]_vars

\* the gateway together with the writer and the poller
NextIngest ==
    \/ \E e \in IngestInputs, ok \in BOOLEAN :
          ingest_event(e.event_id, e.event_type, ok)
    \/ \E e \in WriterInputs : write_event(e.event_id, e.event_type)
    \/ poll_cycle_fetch
    \/ publish_event_ok
    \/ publish_event_fail
    \/ mark_published
    \/ increment_retry
    \/ mark_failed
    \/ poller_crash

\* the poller task keeps running: start() loops over _poll_cycle until stopped,
\* and is started again after a crash
FairIngest == InitOutbox /\ [][NextIngest]_vars /\ WF_vars(PollerStep)

(***************************************************************************)
(* Outbox claims.                                                          *)
(***************************************************************************)
\* the poller published event e to the stream of its event type
PublishedToStream(e) ==
    \E r \in event_outbox : r.id = e /\ e \in Range(streams[r.event_type])

\* the entry of event e was given up with an error recorded
MarkedFailed(e) ==
    \E r \in event_outbox : r.id = e /\ r.last_error # "none"

\* C1: once ingest_event has returned the accepted response for an event, the
\* event is eventually published to the stream of its event type or marked
\* failed, while the poller keeps running.
C1_AcceptedEventuallyDelivered ==
    \A e \in EventIds : (e \in accepted) ~> (PublishedToStream(e) \/ MarkedFailed(e))

\* C2: every outbox entry starts as pending and changes status at most once,
\* from pending to published or from pending to failed; a published or failed
\* entry never changes status again, whatever the poller does (poll cycles,
\* retry increments, crash and restart).
C2_OneTerminalTransition ==
    [][ /\ \A i \in DOMAIN outbox' \ DOMAIN outbox : outbox'[i].status = "pending"
        /\ \A i \in DOMAIN outbox :
              /\ i \in DOMAIN outbox'
              /\ outbox'[i].status # outbox[i].status =>
                    /\ outbox[i].status = "pending"
                    /\ outbox'[i].status \in {"published", "failed"} ]_vars

\* a published entry and a failed entry exist side by side after a restart
C2_Witness ==
    /\ crashes > 0
    /\ \E i, j \in DOMAIN outbox :
          outbox[i].status = "published" /\ outbox[j].status = "failed"

\* C3: an entry whose publish keeps failing is pending while fewer than
\* MAX_RETRIES failures were counted, is failed with an error message once
\* MAX_RETRIES were counted, and retry_count never exceeds MAX_RETRIES.
C3_RetryBound ==
    \A i \in DOMAIN outbox :
        /\ outbox[i].retry_count <= MAX_RETRIES
        /\ outbox[i].status = "failed" =>
              outbox[i].retry_count = MAX_RETRIES /\ outbox[i].error_message # "none"
        /\ (pc = "idle" /\ outbox[i].retry_count >= MAX_RETRIES) =>
              outbox[i].status # "pending"

(***************************************************************************)
(* Risk engine claims.                                                     *)
(***************************************************************************)
\* the scores of the enabled hard rules whose conditions the event meets
MatchedGateScores(ev) ==
    { rules.hard_rules[i].risk_score : i \in
        { j \in DOMAIN rules.hard_rules :
            /\ rules.hard_rules[j].enabled
            /\ "event_type" \in rules.hard_rules[j].conds =>
                  ev.event_type = rules.hard_rules[j].event_type
            /\ "country_code" \in rules.hard_rules[j].conds =>
                  ev.country_code \in rules.hard_rules[j].country_in } }

SetMax(S) == CHOOSE m \in S : \A x \in S : x <= m

\* C4: for every event that matches at least one enabled hard rule, the decision
\* returned is risk_level critical, action block, confidence 1.0 and risk_score
\* the maximum of the matched gates' scores, whatever those scores are.
C4_HardGateBlocks ==
    (evals > 0 /\ MatchedGateScores(last_event) # {}) =>
        /\ last_decision.risk_level = "critical"
        /\ last_decision.recommended_action = "block"
        /\ last_decision.confidence = CONF_ONE
        /\ last_decision.risk_score = SetMax(MatchedGateScores(last_event))

\* the threshold mapping of section 4.2, step 5
ThresholdMap(score) ==
    IF score < rules.thresholds.review THEN <<"low", "allow">>
    ELSE IF score < rules.thresholds.challenge THEN <<"medium", "review">>
    ELSE IF score < rules.thresholds.block THEN <<"high", "challenge">>
    ELSE <<"critical", "block">>

DecisionPair == <<last_decision.risk_level, last_decision.recommended_action>>

\* the last decision came from the except branch
IsFailOpen == "evaluation_error" \in Range(last_decision.triggered_rules)

\* C5 as stated: on every path (hard gate, normal, fail-open) the pair
\* (risk_level, recommended_action) of a returned decision is the threshold
\* mapping of its risk_score.
C5_EveryPathMapped ==
    evals > 0 => DecisionPair = ThresholdMap(last_decision.risk_score)

\* C5 as amended: a decision returned on the normal path (no enabled hard rule
\* matched, no exception) has the pair the threshold mapping gives for its
\* risk_score; a hard-gate decision is (critical, block) and a fail-open
\* decision (low, allow), whatever their scores map to.
C5_NormalPathMapped ==
    evals > 0 =>
        IF IsFailOpen THEN DecisionPair = <<"low", "allow">>
        ELSE IF MatchedGateScores(last_event) # {}
        THEN DecisionPair = <<"critical", "block">>
        ELSE DecisionPair = ThresholdMap(last_decision.risk_score)

\* a normal-path decision in a band above allow
C5_Witness ==
    /\ evals > 0
    /\ ~IsFailOpen
    /\ MatchedGateScores(last_event) = {}
    /\ last_decision.recommended_action \in {"review", "challenge", "block"}

\* C6: if a state-store lookup or update failed while the event was evaluated,
\* the decision returned is allow and carries the marker evaluation_error.
C6_StoreFailureFailsOpen ==
    (evals > 0 /\ last_faults # {}) =>
        /\ last_decision.recommended_action = "allow"
        /\ "evaluation_error" \in Range(last_decision.triggered_rules)

\* C10: every returned decision has an audit entry for its event_id whose
\* recorded decision is the returned action.
C10_DecisionAudited ==
    evals > 0 =>
        \E i \in DOMAIN audit_log :
            /\ audit_log[i].event_id = last_decision.event_id
            /\ audit_log[i].decision = last_decision.recommended_action

(***************************************************************************)
(* Claims about the chained audit service, under SpecAudit.                *)
(***************************************************************************)
\* the rows of one organization in the order they were inserted
ChainOf(org) == SelectSeq(chain, LAMBDA row : row.org = org)

\* C7: also when appends run concurrently, the entries of one chain in chain
\* order each carry the hash of the entry before them, and no two entries of
\* a chain have the same predecessor hash.
C7_ChainLinked ==
    \A org \in Orgs :
        LET entries == ChainOf(org)
        IN /\ \A i \in 2..Len(entries) :
                 entries[i].previous_hash = entries[i - 1].current_hash
           /\ \A i, j \in DOMAIN entries :
                 i # j => entries[i].previous_hash # entries[j].previous_hash

\* C8: the hash of every appended entry is the hash of its stored fields, so
\* verify_chain_integrity on a chain nobody altered reports integrity_verified
\* with no issues.
C8_HashOverStoredFields ==
    /\ \A i \in DOMAIN chain :
          i \notin tampered =>
              chain[i].current_hash =
                  calculate_hash(chain[i].previous_hash, chain[i].actor_id,
                                 chain[i].event_type, chain[i].payload_json,
                                 chain[i].timestamp)
    /\ \A org \in Orgs :
          RowsOf(org) \cap tampered = {} =>
              \A logs \in ReadOrders(org) :
                  /\ VerifyReport(org, logs).integrity_verified
                  /\ VerifyReport(org, logs).issues = <<>>

\* C9: with entries A then B in a chain (B appended after A, at a later clock
\* value) and the stored payload of A altered, verify_chain_integrity reports
\* A as tampered and B as chain-broken.
C9_TamperFlagsBoth ==
    \A org \in Orgs :
        \A a, b \in RowsOf(org) :
            ( /\ RowsOf(org) = {a, b}
              /\ chain[b].previous_hash = chain[a].current_hash
              /\ chain[a].timestamp < chain[b].timestamp
              /\ a \in tampered /\ b \notin tampered ) =>
                \A logs \in ReadOrders(org) :
                    LET issues == Range(VerifyReport(org, logs).issues)
                    IN /\ [log_id |-> a, status |-> "TAMPERING DETECTED"] \in issues
                       /\ [log_id |-> b, status |-> "CHAIN BROKEN"] \in issues

(***************************************************************************)
(* Claims about the velocity counter, under SpecVelocity.                  *)
(***************************************************************************)
\* C11: once the calls of increment_velocity_counter on a key that does not
\* expire have completed, the counter is the number of calls and the values
\* they returned are pairwise distinct: no increment is lost or reset.
C11_AtomicIncrements ==
    ~vexpired =>
        /\ \A i, j \in DOMAIN vreturned : i # j => vreturned[i] # vreturned[j]
        /\ (\A c \in VelocityClients : vclient[c] = "idle") =>
               vkey.value = Len(vreturned)

(***************************************************************************)
(* Claims about the rule registry, under SpecRegistry.                     *)
(***************************************************************************)
LastOp == oplog[2]
PrevOp == oplog[1]

\* the registry is as the last call found it
RegistryAsBefore ==
    /\ current_rules = LastOp.before.rules
    /\ current_version = LastOp.before.version
    /\ rule_history = LastOp.before.history

\* C12: in every registry state, a non-forced reload while the file content is the
\* content currently installed returns unchanged and leaves version, rules and
\* history as they were.
C12_ReloadUnchanged ==
    ( /\ LastOp.name = "reload" /\ ~LastOp.force
      /\ LastOp.before.version # NoVersion
      /\ LastOp.file = LastOp.before.rules ) =>
        /\ LastOp.result.status = "unchanged"
        /\ RegistryAsBefore

\* C13: a reload of a file that fails validation reports validation_failed
\* with the list of issues and leaves rules, version and history as they were.
C13_InvalidReloadRejected ==
    (LastOp.name = "reload" /\ validate_rules(LastOp.file) # <<>>) =>
        /\ LastOp.result.status = "validation_failed"
        /\ LastOp.result.errors = validate_rules(LastOp.file)
        /\ RegistryAsBefore

\* C14: after a rollback from version W to a retained earlier version V of
\* other content, a reload of the unchanged file (still W's content) puts the
\* registry back at version W with W's content, and the current version is
\* not at the same time an entry of the history.
C14_RollbackThenReload ==
    LET W == PrevOp.before.version
    IN ( /\ PrevOp.name = "rollback" /\ PrevOp.result.status = "success"
         /\ PrevOp.arg < W.version
         /\ PrevOp.before.history[PrevOp.arg].hash # W.hash
         /\ LastOp.name = "reload" /\ ~LastOp.force
         /\ LastOp.file = W.hash /\ PrevOp.file = W.hash ) =>
           /\ current_version.version = W.version
           /\ current_rules = W.hash
           /\ current_version.version \notin DOMAIN rule_history

\* C15: a version label denotes one content: no two contents were ever made
\* current under the same label, and no history entry holds a content
\* other than the one installed under its label.
C15_OneContentPerVersion ==
    /\ \A p, q \in installed : p[1] = q[1] => p[2] = q[2]
    /\ \A v \in DOMAIN rule_history :
          \A p \in installed : p[1] = v => p[2] = rule_history[v].rules

\* C16: the ground truth of a shadow result is set exactly once: a
\* label_shadow_result call on a row whose actual_fraud is already set is
\* answered 409 Conflict and leaves actual_fraud, labeled_at and
\* labeled_by_user_id of the row as they were.
C16_LabelOnce ==
    LET id == last_label.request.result_id
    IN ( /\ last_label.status_code \notin {0, 403}
         /\ last_label.before.actual_fraud # "null" )
          => /\ last_label.status_code = 409
             /\ shadow_results[id] = last_label.before

\* C17: after any sequence of record_connection calls, every stored edge has
\* user_a_id < user_b_id.
C17_EdgesCanonical ==
    \A c \in connections : c.user_a_id < c.user_b_id

\* C18: right after flag_ring(org, users, reason), every stored edge of org
\* between two different users of the list is flagged, whatever the content
\* and the order of the list.
C18_RingFlagged ==
    \A c \in connections :
        ( /\ c.organization_id = last_flag.org
          /\ c.user_a_id < c.user_b_id
          /\ c.user_a_id \in Range(last_flag.user_ids)
          /\ c.user_b_id \in Range(last_flag.user_ids) )
            => c.is_flagged_ring

\* the record_connection calls for the key of a stored edge
CallsFor(c) ==
    { i \in DOMAIN link_calls :
        /\ link_calls[i].org = c.organization_id
        /\ link_calls[i].type = c.connection_type
        /\ {link_calls[i].a, link_calls[i].b} = {c.user_a_id, c.user_b_id} }

\* C19: the strength of a stored edge between two different users is the
\* maximum of the strengths supplied in the calls for its (org, unordered
\* pair, type), and its event_count is the number of those calls.
C19_StrengthAndCount ==
    \A c \in connections :
        c.user_a_id < c.user_b_id =>
            /\ c.event_count = Cardinality(CallsFor(c))
            /\ \A i \in CallsFor(c) :
                  link_calls[i].strength <= c.connection_strength

\* a row of the delivery history for this event and attempt
Attempted(event_id, attempt) ==
    \E i \in DOMAIN deliveries : /\ deliveries[i].event_id = event_id
                                 /\ deliveries[i].attempt_number = attempt

\* a failed attempt that is not the final one, with its retry scheduled
FailedNotFinal(event_id, attempt) ==
    \E i \in DOMAIN deliveries : /\ deliveries[i].event_id = event_id
                                 /\ deliveries[i].attempt_number = attempt
                                 /\ ~deliveries[i].is_successful
                                 /\ ~deliveries[i].is_final_attempt
                                 /\ deliveries[i].next_retry_at # -1

\* C20: when a delivery attempt fails and is not the final attempt, the next
\* attempt (attempt + 1) of that event is eventually made, unless the
\* webhook's max_retries is lowered to that attempt in the meantime.
C20_RetryEventuallyMade ==
    \A e \in 1..MaxWebhookEvents : \A n \in 1..(DEFAULT_MAX_RETRIES - 1) :
        FailedNotFinal(e, n) ~>
            (Attempted(e, n + 1) \/ webhook.max_retries <= n)

\* C21: every delivery attempt (a request the endpoint received or that
\* timed out) adds exactly one delivery record, adds 1 to total_deliveries
\* and 1 to exactly one of successful_deliveries and failed_deliveries, so
\* that total = success + failure.
C21_OneRecordPerAttempt ==
    [][ Len(endpoint') = Len(endpoint) + 1 =>
          /\ Len(deliveries') = Len(deliveries) + 1
          /\ webhook'.total_deliveries = webhook.total_deliveries + 1
          /\ webhook'.successful_deliveries >= webhook.successful_deliveries
          /\ webhook'.failed_deliveries >= webhook.failed_deliveries
          /\ webhook'.successful_deliveries + webhook'.failed_deliveries
               = webhook.successful_deliveries + webhook.failed_deliveries + 1
          /\ webhook'.total_deliveries
               = webhook'.successful_deliveries + webhook'.failed_deliveries
      ]_vars

\* this step is an evaluation in which the velocity checks ran to the end
VelocityEvaluated ==
    /\ evals' = evals + 1
    /\ last_decision'.hard_rules_triggered = <<>>
    /\ "evaluation_error" \notin Range(last_decision'.triggered_rules)
    /\ last_faults' = {}

\* C22: after the impossible-travel check has evaluated a login event, the
\* stored location of the user is the location of that event.
C22_LocationUpdated ==
    [][ ( /\ VelocityEvaluated
          /\ last_event'.event_type = LOGIN
          /\ \E i \in DOMAIN rules.velocity_checks :
                /\ rules.velocity_checks[i].id = "impossible_travel"
                /\ rules.velocity_checks[i].enabled )
        => location'[last_event'.user_id] = last_event'.place ]_vars

\* C23: impossible_travel triggers only if the distance from the last known
\* location exceeds 3000 mi and the time since that location was seen is too
\* short to cover the distance at 500 mph.
C23_TravelNeedsSpeed ==
    [][ ( /\ VelocityEvaluated
          /\ "impossible_travel" \in Range(last_decision'.triggered_rules) )
        => LET user == last_event'.user_id
               distance == haversine_distance(location[user], last_event'.place)
           IN /\ location[user] # "none"
              /\ distance > TRAVEL_MILES
              /\ (engine_now - seen_at[user]) * 500 < distance ]_vars

\* the last evaluation ran the velocity checks to the end
LastVelocityEvaluated ==
    /\ evals > 0
    /\ last_decision.hard_rules_triggered = <<>>
    /\ "evaluation_error" \notin Range(last_decision.triggered_rules)

\* C24: starting with no hourly counter, the n-th transaction.attempted event
\* of a user within the hour triggers rapid_transactions exactly if n > 20;
\* n is the user's counter, every event of the hour being counted once.
C24_RapidFrom21st ==
    /\ counter["u1"] + counter["u2"] = evals
    /\ LastVelocityEvaluated =>
          ( "rapid_transactions" \in Range(last_decision.triggered_rules)
              <=> counter[last_event.user_id] > 20 )

\* the 21st transaction of u2 within the hour has triggered the rule
C24_Witness ==
    /\ LastVelocityEvaluated
    /\ last_event.user_id = "u2"
    /\ counter["u2"] = 21
    /\ "rapid_transactions" \in Range(last_decision.triggered_rules)

\* C25: within one multi-device window a login triggers multi_device_login
\* exactly if it comes from a device not known before and the distinct new
\* devices seen in the window, this one included, number more than 3.
C25_FourthNewDevice ==
    [][ (VelocityEvaluated /\ last_event'.event_type = LOGIN) =>
          LET user == last_event'.user_id
              device == last_event'.device_fingerprint
          IN "multi_device_login" \in Range(last_decision'.triggered_rules)
               <=> ( /\ device \notin devices[user]
                     /\ Cardinality(newdev[user] \cup {device}) > 3 ) ]_vars

\* the login from the fourth new device has triggered, three devices being
\* known from the logins before
C25_Witness ==
    /\ LastVelocityEvaluated
    /\ Cardinality(newdev[last_event.user_id]) = 4
    /\ Cardinality(devices[last_event.user_id]) = 3
    /\ last_event.device_fingerprint \notin devices[last_event.user_id]
    /\ "multi_device_login" \in Range(last_decision.triggered_rules)

\* C26: POST /events/ingest with an empty event_id is answered with HTTP 400
\* and writes no outbox entry.
C26_EmptyIdRejected ==
    (response.status # "none" /\ response.event_id = "") =>
        /\ response.status = "error_400"
        /\ \A r \in event_outbox : r.id # ""

\* _determine_action was applied to the score of last_decision
ActionApplied == "evaluation_error" \notin Range(last_decision.triggered_rules)

\* a score exactly at a threshold falls into the higher band
AtThresholdInclusive ==
    LET th == rules.thresholds
        pair == <<last_decision.risk_level, last_decision.recommended_action>>
    IN /\ last_decision.risk_score = th.review => pair = <<"medium", "review">>
       /\ last_decision.risk_score = th.challenge => pair = <<"high", "challenge">>
       /\ last_decision.risk_score = th.block => pair = <<"critical", "block">>

\* C27 as stated: for any thresholds with T_review <= T_challenge <= T_block,
\* a score equal to T_review maps to (medium, review), equal to T_challenge
\* to (high, challenge), equal to T_block to (critical, block).
C27_InclusiveBounds ==
    ( /\ ActionApplied
      /\ rules.thresholds.review <= rules.thresholds.challenge
      /\ rules.thresholds.challenge <= rules.thresholds.block )
        => AtThresholdInclusive

\* C27 amended: the same for thresholds that differ,
\* T_review < T_challenge < T_block.
C27_InclusiveBoundsDistinct ==
    ( /\ ActionApplied
      /\ rules.thresholds.review < rules.thresholds.challenge
      /\ rules.thresholds.challenge < rules.thresholds.block )
        => AtThresholdInclusive

\* a score at the review threshold of distinct thresholds, mapped to review
C27_Witness ==
    /\ ActionApplied
    /\ rules.thresholds.review < rules.thresholds.challenge
    /\ rules.thresholds.challenge < rules.thresholds.block
    /\ last_decision.risk_score = rules.thresholds.review
    /\ last_decision.recommended_action = "review"

\* C28: evaluating an event again (same event_id as the evaluation before)
\* leaves the velocity counters, the new-device sets, the device sets and
\* the last locations as they are, and the audit log holds at most one entry
\* for that event_id.
C28_IdempotentOnEventId ==
    [][ ( /\ evals' = evals + 1
          /\ evals > 0
          /\ last_event'.event_id = last_event.event_id )
        => /\ UNCHANGED <<counter, newdev, devices, location>>
           /\ Cardinality({ i \in DOMAIN audit_log' :
                 audit_log'[i].event_id = last_event'.event_id }) <= 1 ]_vars

\* C29: when a hard gate matches, the evaluation leaves the velocity
\* counters, new-device sets, device sets and last locations unchanged.
C29_GateSkipsChecks ==
    [][ ( /\ evals' = evals + 1
          /\ Len(evaluate_hard_rules(last_event').triggered) > 0 )
        => UNCHANGED <<counter, newdev, devices, location>> ]_vars

\* a login stopped by a hard gate, from a place and a device that the
\* velocity checks would have stored
C29_Witness ==
    /\ evals > 0
    /\ last_decision.hard_rules_triggered # <<>>
    /\ last_event.event_type = LOGIN
    /\ last_faults = {}
    /\ location[last_event.user_id] = "none"
    /\ last_event.device_fingerprint \notin devices[last_event.user_id]

\* C30: prior versions are retained: every version that was made current
\* earlier and is not the current one has an entry in rule_history holding
\* the rules it was installed with, so that rollback_rules to it succeeds and
\* restores exactly those rules; this includes the version that was current
\* just before a rollback.
C30_PriorVersionsRetained ==
    \A p \in installed :
        p[1] # current_version.version
            => /\ p[1] \in DOMAIN rule_history
               /\ rule_history[p[1]].rules = p[2]

\* C31: installing a rule set is atomic for readers: the rules and the
\* version label a reader obtained from get_rules and get_rule_version
\* belong to one version that was installed, also while a reload or a
\* rollback runs concurrently.
C31_ReaderSeesOneVersion ==
    (reader.pc = "done" /\ reader.version # -1)
        => <<reader.version, reader.rules>> \in installed

\* C32: in every reachable state, also after concurrent record_connection
\* calls for the same unordered pair and connection type, at most one edge
\* exists per (organization, user_a_id, user_b_id, connection_type), and its
\* event_count equals the number of completed calls for it.
C32_OneEdgePerPair ==
    \A t \in PairTypes :
        LET rows == { i \in DOMAIN edges : edges[i].connection_type = t }
        IN /\ Cardinality(rows) <= 1
           /\ \A i \in rows : edges[i].event_count = pair_done[t]

\* C33: every velocity counter key that exists carries a TTL, after any
\* interleaving of increment_velocity_counter calls with key expirations, so
\* that a counter which is no longer incremented eventually disappears.
C33_CounterHasTTL == vkey.present => vkey.ttl

\* C34: after the multi-device check has evaluated a login, the device
\* fingerprint of the event is a member of the device set of the user,
\* whether or not the check triggered.
C34_DeviceCachedAfterCheck ==
    [][ (VelocityEvaluated /\ last_event'.event_type = LOGIN) =>
          last_event'.device_fingerprint \in devices'[last_event'.user_id] ]_vars

\* the largest risk_score among the rules of `list` that triggered, 0 if none
CategoryMax(list, triggered) ==
    LET scores == { list[i].risk_score : i \in { k \in DOMAIN list :
                                            list[k].id \in Range(triggered) } }
    IN IF scores = {} THEN 0
       ELSE CHOOSE m \in scores : \A x \in scores : x <= m

\* the last evaluation returned a scored decision without a hard gate and
\* without a matching combination, so its score is the score before the
\* meta-combinations
ScoredWithoutBoost ==
    /\ evals > 0
    /\ ActionApplied
    /\ last_decision.hard_rules_triggered = <<>>
    /\ evaluate_rule_combinations(last_decision.triggered_rules) = 0

\* C35: when no hard gate fires, the score before meta-combinations is
\* 0.7 x velocity_max + 0.3 x behavioral_max if both categories produced a
\* non-zero score, and otherwise the non-zero one of the two (0 if neither).
C35_WeightedOnlyWhenBoth ==
    ScoredWithoutBoost =>
        LET v == CategoryMax(rules.velocity_checks, last_decision.triggered_rules)
            b == CategoryMax(rules.behavioral_rules, last_decision.triggered_rules)
        IN last_decision.risk_score =
              IF v # 0 /\ b # 0 THEN (v * 7 + b * 3) \div 10
              ELSE IF v # 0 THEN v ELSE b

\* the boosts (base_score - 0.5) of the configured combinations whose
\* required rule ids are all among the triggered ones
MatchingBoosts(triggered) ==
    { rules.rule_combinations[i].base_score - 500 :
        i \in { k \in DOMAIN rules.rule_combinations :
                  rules.rule_combinations[k].triggered_rules
                      \subseteq Range(triggered) } }

LargestOf(S) == CHOOSE m \in S : \A x \in S : x <= m

\* the combination step was applied in this step
CombinationsApplied ==
    /\ last_decision.triggered_rules = <<>>
    /\ last_decision' # last_decision
    /\ last_decision'.event_id = ""
    /\ UNCHANGED rules
    /\ \/ last_decision'.triggered_rules # <<>>
       \/ last_decision'.risk_score = last_decision.risk_score

C37_BatchInInsertOrder ==
    \A i, j \in DOMAIN batch :
        (i < j /\ StreamOf(outbox[batch[i]]) = StreamOf(outbox[batch[j]]))
            => batch[i] < batch[j]

\* C39: organizations are isolated for shadow labeling: a label request of a
\* user of one organization never changes actual_fraud, labeled_at or
\* labeled_by of a shadow result that belongs to another organization.
C39_LabelWithinOrganization ==
    LET id == last_label.request.result_id
    IN ( /\ last_label.status_code # 0
         /\ last_label.before.present
         /\ last_label.before.organization_id # last_label.request.org_id )
          => shadow_results[id] = last_label.before

\* the confusion counts of the labeled results of a rule and an organization
\* whose timestamp lies in the day that starts at `date`
DayCounts(rule_id, org_id, date) ==
    LET day == { id \in ResultIds :
                   /\ shadow_results[id].present
                   /\ shadow_results[id].rule_id = rule_id
                   /\ shadow_results[id].organization_id = org_id
                   /\ shadow_results[id].timestamp = date + 1
                   /\ shadow_results[id].actual_fraud # "null" }
        Count(blocked, fraud) ==
            Cardinality({ id \in day :
                /\ shadow_results[id].would_have_blocked = blocked
                /\ shadow_results[id].actual_fraud = BoolColumn(fraud) })
    IN <<Count(TRUE, TRUE), Count(TRUE, FALSE), Count(FALSE, TRUE),
         Count(FALSE, FALSE)>>

\* C38: each entry get_accuracy_trends returns for a day reports the
\* accuracy of that day: its confusion counts are those of the labeled
\* results of the rule and organization whose timestamp lies in that day, so
\* the four counts sum to its sample_size.
C38_TrendsPerDay ==
    \A org \in ShadowOrgs, days \in 1..(MaxShadowTime + 1) :
        LET trends == get_accuracy_trends(SHADOW_RULE, org, days)
        IN \A k \in DOMAIN trends :
              /\ trends[k].confusion_matrix = DayCounts(SHADOW_RULE, org, trends[k].date)
              /\ trends[k].confusion_matrix[1] + trends[k].confusion_matrix[2]
                   + trends[k].confusion_matrix[3] + trends[k].confusion_matrix[4]
                     = trends[k].sample_size

\* C40: a refresh token can be exchanged at most once: among the refresh
\* requests presenting the same token, concurrent ones included, at most one
\* succeeds and issues new tokens, and after a successful refresh the old
\* token is revoked.
C40_RefreshAtMostOnce ==
    \A token \in DOMAIN refresh_tokens :
        LET wins == { i \in DOMAIN refresh_log :
                        /\ refresh_log[i].token = token
                        /\ refresh_log[i].status = 200 }
        IN /\ Cardinality(wins) <= 1
           /\ wins # {} => refresh_tokens[token].is_revoked

====
